---- MODULE Spec2Model ----
(***************************************************************************)
(* Model of the core of topsha: the ReAct agent loop (src/core/agent.py),  *)
(* its session store, the command security gate (src/core/security.py)    *)
(* and the shell tool (src/core/tools/bash.py).                            *)
(*                                                                         *)
(* Text is a sequence of symbols.  A symbol is a one-character string in   *)
(* a shell command (the security gate's regular expressions are matched    *)
(* character by character) and a word in tool output and messages.         *)
(***************************************************************************)
EXTENDS Integers, Sequences, FiniteSets, TLC

VARIABLES
    BLOCKED_PATTERNS,   \* security.py: the configured pattern list, loaded at import
    SANDBOX_ENABLED,    \* bash.py: module flag set by set_sandbox_enabled
    sec,                \* the call of the security gate / the shell tool in progress
    sessions,           \* agent.py: SessionManager.sessions, key -> Session
    run,                \* the run_agent coroutines, by task id
    started,            \* number of run_agent invocations so far
    mcp,                \* tools-api: the MCP server config file, the tool cache
                        \* and the response of the listing in flight
    userbot             \* userbot/main.py: last_response_time, the clock, the
                        \* message handlers in progress and the responses sent

vars == <<BLOCKED_PATTERNS, SANDBOX_ENABLED, sec, sessions, run, started, mcp, userbot>>

(***************************************************************************)
(* Bounds of the model.                                                    *)
(***************************************************************************)
\* Longest history handed to trim_history on its own.
MaxHistoryLen == 4
\* Largest max_msgs handed to trim_history on its own.
MaxMsgsBudget == 4
\* Largest max_chars handed to trim_history on its own.
MaxCharsBudget == 12
\* The 100 characters kept of a tool output's first line by the fallback of
\* run_agent, scaled down.
FirstLineChars == 3
\* run_agent invocations per behaviour when only the history is followed.
MaxHistoryRuns == 5
\* Longest configured pattern list explored.
MaxPatterns == 2
\* CONFIG.max_blocked_commands (config.py default 10), scaled down.
max_blocked_commands == 2
\* CONFIG.max_iterations (config.py default 30), scaled down.
max_iterations == 2
\* CONFIG.max_tool_output (config.py default 8000), scaled down.  One symbol
\* of an output stands for a stretch of text; the tenth of the budget that the
\* cut leaves free holds the marker and the "Error: Exit N: " prefix, as the
\* 800 characters of the default do.
max_tool_output == 21
\* run_agent invocations per behaviour.
MaxRuns == 2
\* CONFIG.max_history (config.py default 10), scaled down.
max_history == 2
\* CONFIG.max_context_messages (config.py default 40), scaled down.
max_context_messages == 4
\* The character budget of the persisted history (30000 in run_agent), scaled down.
HistoryChars == 6
\* The character budget of the model context (50000 in run_agent), scaled down.
ContextChars == 8

(***************************************************************************)
(* Text helpers.                                                           *)
(***************************************************************************)
UpperLetters ==
    <<"A","B","C","D","E","F","G","H","I","J","K","L","M",
      "N","O","P","Q","R","S","T","U","V","W","X","Y","Z">>

LowerLetters ==
    <<"a","b","c","d","e","f","g","h","i","j","k","l","m",
      "n","o","p","q","r","s","t","u","v","w","x","y","z">>

Digits == {"0","1","2","3","4","5","6","7","8","9"}

UpperSet == {UpperLetters[i] : i \in 1..26}

LowerSet == {LowerLetters[i] : i \in 1..26}

LowerMap == [c \in UpperSet |-> LowerLetters[CHOOSE i \in 1..26 : UpperLetters[i] = c]]

\* Case folding of one character, as re.IGNORECASE compares.
Lower(c) == IF c \in UpperSet THEN LowerMap[c] ELSE c

\* \w of Python's re: letters, digits, underscore.
IsWordChar(c) == c \in UpperSet \/ c \in LowerSet \/ c \in Digits \/ c = "_"

\* \s of Python's re.
IsSpace(c) == c \in {" ", "\t", "\n"}

\* Python's `sub in text`.
Contains(text, sub) ==
    \E i \in 0..(Len(text) - Len(sub)) :
        \A j \in 1..Len(sub) : text[i + j] = sub[j]

\* The literal lit stands in s at offset i (characters s[i+1..i+Len(lit)]).
LitAt(s, i, lit, ci) ==
    /\ i >= 0
    /\ i + Len(lit) <= Len(s)
    /\ \A j \in 1..Len(lit) :
          IF ci THEN Lower(s[i + j]) = Lower(lit[j]) ELSE s[i + j] = lit[j]

\* \b holds between s[i] and s[i+1] (i = 0 and i = Len(s) are the ends).
WordBoundary(s, i) ==
    LET before == i >= 1 /\ i <= Len(s) /\ IsWordChar(s[i])
        after  == i + 1 >= 1 /\ i + 1 <= Len(s) /\ IsWordChar(s[i + 1])
    IN  before # after

(***************************************************************************)
(* security.py                                                             *)
(***************************************************************************)
\* re.search(pattern, command, flags) for the configured patterns explored
\* here: literal patterns.  The pattern "(" does not compile (re.error).
ReCompiles(pattern) == ~Contains(pattern, <<"(">>)

ReSearchLiteral(pattern, command, ci) ==
    \E i \in 0..Len(command) : LitAt(command, i, pattern, ci)

\* r"\brm\s+-rf\b", re.IGNORECASE
MatchRmRf(s) ==
    \E i \in 0..Len(s) : \E k \in 1..Len(s) :
        /\ WordBoundary(s, i)
        /\ LitAt(s, i, <<"r","m">>, TRUE)
        /\ i + 2 + k <= Len(s)
        /\ \A j \in (i + 3)..(i + 2 + k) : IsSpace(s[j])
        /\ LitAt(s, i + 2 + k, <<"-","r","f">>, TRUE)
        /\ WordBoundary(s, i + 5 + k)

\* r"\bchmod\s+[0-7]{3,4}", re.IGNORECASE
MatchChmod(s) ==
    \E i \in 0..Len(s) : \E k \in 1..Len(s) :
        /\ WordBoundary(s, i)
        /\ LitAt(s, i, <<"c","h","m","o","d">>, TRUE)
        /\ i + 5 + k + 3 <= Len(s)
        /\ \A j \in (i + 6)..(i + 5 + k) : IsSpace(s[j])
        /\ \A j \in (i + 5 + k + 1)..(i + 5 + k + 3) :
              s[j] \in {"0","1","2","3","4","5","6","7"}

\* r"\bchown\b", re.IGNORECASE
MatchChown(s) ==
    \E i \in 0..Len(s) :
        /\ WordBoundary(s, i)
        /\ LitAt(s, i, <<"c","h","o","w","n">>, TRUE)
        /\ WordBoundary(s, i + 5)

\* r"\bkill\b", re.IGNORECASE
MatchKill(s) ==
    \E i \in 0..Len(s) :
        /\ WordBoundary(s, i)
        /\ LitAt(s, i, <<"k","i","l","l">>, TRUE)
        /\ WordBoundary(s, i + 4)

DANGEROUS_PATTERNS ==
    << [name |-> "rm",    reason |-> <<"Recursive", "delete">>],
       [name |-> "chmod", reason |-> <<"Permission", "change">>],
       [name |-> "chown", reason |-> <<"Owner", "change">>],
       [name |-> "kill",  reason |-> <<"Process", "kill">>] >>

DangerousMatch(k, command) ==
    CASE DANGEROUS_PATTERNS[k].name = "rm"    -> MatchRmRf(command)
      [] DANGEROUS_PATTERNS[k].name = "chmod" -> MatchChmod(command)
      [] DANGEROUS_PATTERNS[k].name = "chown" -> MatchChown(command)
      [] DANGEROUS_PATTERNS[k].name = "kill"  -> MatchKill(command)

\* The test of one configured record inside the first loop of check_command:
\* re.search under try/except re.error.
RecordMatches(p, command) ==
    /\ ReCompiles(p.pattern)
    /\ ReSearchLiteral(p.pattern, command, p.flags = "i")

\* Mutant of AdminSkips: an admin skips every configured record.
AdminSkips_all(p, is_admin) == is_admin

\* Mutant of AdminSkips: the admin_bypass flag is ignored.
AdminSkips_never(p, is_admin) == FALSE

\* `if is_admin and pattern_info.get("admin_bypass", False): continue`
AdminSkips(p, is_admin) == is_admin /\ p.admin_bypass

Decision(d, b, r) == [dangerous |-> d, blocked |-> b, reason |-> r]

\* Mutant of BuiltinDecision: the chat-type test inverted.
BuiltinDecision_inverted(k, chat_type) ==
    IF chat_type = "private"
    THEN Decision(FALSE, TRUE,
                  <<"BLOCKED", "in", "groups", ":">> \o DANGEROUS_PATTERNS[k].reason)
    ELSE Decision(TRUE, FALSE, DANGEROUS_PATTERNS[k].reason)

\* The two returns inside the second loop of check_command.
BuiltinDecision(k, chat_type) ==
    IF chat_type # "private"
    THEN Decision(FALSE, TRUE,
                  <<"BLOCKED", "in", "groups", ":">> \o DANGEROUS_PATTERNS[k].reason)
    ELSE Decision(TRUE, FALSE, DANGEROUS_PATTERNS[k].reason)

\* The second loop of check_command, from built-in pattern k on.
RECURSIVE ScanDangerous(_, _, _)
ScanDangerous(k, command, chat_type) ==
    IF k > Len(DANGEROUS_PATTERNS)
    THEN Decision(FALSE, FALSE, <<>>)
    ELSE IF DangerousMatch(k, command)
         THEN BuiltinDecision(k, chat_type)
         ELSE ScanDangerous(k + 1, command, chat_type)

\* Mutant of ScanBlocked: the configured list walked from its end.
RECURSIVE ScanBlocked_reversed(_, _, _, _, _)
ScanBlocked_reversed(patterns, i, command, chat_type, is_admin) ==
    IF i > Len(patterns)
    THEN ScanDangerous(1, command, chat_type)
    ELSE LET p == patterns[Len(patterns) - i + 1]
         IN  IF AdminSkips(p, is_admin)
             THEN ScanBlocked_reversed(patterns, i + 1, command, chat_type, is_admin)
             ELSE IF RecordMatches(p, command)
                  THEN Decision(FALSE, TRUE, p.reason)
                  ELSE ScanBlocked_reversed(patterns, i + 1, command, chat_type, is_admin)

\* The first loop of check_command, from configured record i on.
RECURSIVE ScanBlocked(_, _, _, _, _)
ScanBlocked(patterns, i, command, chat_type, is_admin) ==
    IF i > Len(patterns)
    THEN ScanDangerous(1, command, chat_type)
    ELSE IF AdminSkips(patterns[i], is_admin)
         THEN ScanBlocked(patterns, i + 1, command, chat_type, is_admin)
         ELSE IF RecordMatches(patterns[i], command)
              THEN Decision(FALSE, TRUE, patterns[i].reason)
              ELSE ScanBlocked(patterns, i + 1, command, chat_type, is_admin)

check_command(command, chat_type, is_admin) ==
    ScanBlocked(BLOCKED_PATTERNS, 1, command, chat_type, is_admin)

\* Symbols with the shape of a secret: a KEY=VALUE assignment with a sensitive
\* key, a vendor API key, a bot token, a bearer token (SECRET_PATTERNS).
SecretSymbols == {"API_KEY=v", "sk-key"}

REDACTED == "[REDACTED]"

sanitize_output(output) ==
    [i \in 1..Len(output) |->
        IF output[i] \in SecretSymbols THEN REDACTED ELSE output[i]]

\* str.lower()
LowerText(text) == [i \in 1..Len(text) |-> Lower(text[i])]

\* os.path.basename(path): what follows the last "/".
RECURSIVE basename(_)
basename(path) ==
    IF \E i \in 1..Len(path) : path[i] = "/"
    THEN basename(Tail(path))
    ELSE path

SENSITIVE_FILES ==
    { <<".","e","n","v">>,
      <<".","e","n","v",".","l","o","c","a","l">>,
      <<".","e","n","v",".","p","r","o","d","u","c","t","i","o","n">>,
      <<".","e","n","v",".","d","e","v","e","l","o","p","m","e","n","t">>,
      <<"c","r","e","d","e","n","t","i","a","l","s",".","j","s","o","n">>,
      <<"s","e","c","r","e","t","s",".","j","s","o","n">>,
      <<".","s","e","c","r","e","t","s">>,
      <<"i","d","_","r","s","a">>,
      <<"i","d","_","e","d","2","5","5","1","9">>,
      <<".","p","e","m">>,
      <<".","k","e","y">> }

is_sensitive_file(path) ==
    \/ LowerText(basename(path)) \in SENSITIVE_FILES
    \/ Contains(path, <<".","s","s","h">>)
    \/ Contains(path, <<"/","r","u","n","/","s","e","c","r","e","t","s">>)

(***************************************************************************)
(* models.py and tools/bash.py                                             *)
(***************************************************************************)
ToolResult(success, output, error) ==
    [success |-> success, output |-> output, error |-> error]

\* Variant: the context of every run says admin.
ToolContext_admin(cwd, user_id, chat_id, chat_type, source) ==
    [cwd |-> cwd, session_id |-> <<user_id, chat_id>>, user_id |-> user_id,
     chat_id |-> chat_id, chat_type |-> chat_type, source |-> source,
     is_admin |-> TRUE]

ToolContext(cwd, user_id, chat_id, chat_type, source) ==
    [cwd |-> cwd, session_id |-> <<user_id, chat_id>>, user_id |-> user_id,
     chat_id |-> chat_id, chat_type |-> chat_type, source |-> source,
     is_admin |-> FALSE]

TRIMMED == "... [TRIMMED] ..."

\* Python's output[:n]
PyHead(output, n) == SubSeq(output, 1, IF n < Len(output) THEN n ELSE Len(output))

\* Python's output[-n:]; output[-0:] is the whole text.
PyTail(output, n) ==
    IF n = 0 \/ n >= Len(output) THEN output
    ELSE SubSeq(output, Len(output) - n + 1, Len(output))

\* "Truncate long output" of tool_run_command: int(max * 0.6), int(max * 0.3).
TruncateOutput(output) ==
    IF Len(output) > max_tool_output
    THEN PyHead(output, (max_tool_output * 6) \div 10)
         \o <<TRIMMED>>
         \o PyTail(output, (max_tool_output * 3) \div 10)
    ELSE output

\* `output or "(empty output)"`
OrEmptyOutput(output) == IF output = <<>> THEN <<"(empty output)">> ELSE output

\* The two early returns of tool_run_command after the security check.
GateRefusal(decision) ==
    IF decision.blocked
    THEN ToolResult(FALSE, <<>>, <<"(no-entry)", "BLOCKED", ":">> \o decision.reason)
    ELSE ToolResult(FALSE, <<>>,
                    <<"(warning)", "Dangerous", ":">> \o decision.reason
                    \o <<".", "Approval", "not", "implemented.">>)

\* Mutant of GateRefuses: the `if dangerous` return is missing.
GateRefuses_blockedOnly(decision) == decision.blocked

\* `if blocked: return ...` and `if dangerous: return ...`
GateRefuses(decision) == decision.blocked \/ decision.dangerous

\* The sandbox branch once execute_in_sandbox reported sandboxed = True.
SandboxedResult(reply) ==
    LET output == TruncateOutput(sanitize_output(reply.output))
    IN  IF reply.success
        THEN ToolResult(TRUE, OrEmptyOutput(output), <<>>)
        ELSE ToolResult(FALSE, <<>>, output)

\* The local branch: create_subprocess_shell, communicate under a timeout.
LocalResult(reply) ==
    CASE reply.kind = "exception" -> ToolResult(FALSE, <<>>, reply.output)
      [] reply.kind = "timeout"   -> ToolResult(FALSE, <<>>, <<"Command", "timed", "out">>)
      [] reply.kind = "exit" ->
            LET output == TruncateOutput(sanitize_output(reply.output))
            IN  IF reply.returncode # "0"
                THEN ToolResult(FALSE, <<>>,
                                <<"Exit " \o reply.returncode \o ":">> \o output)
                ELSE ToolResult(TRUE, OrEmptyOutput(output), <<>>)

\* Mutant of SandboxRouted: the reply's sandboxed flag is not consulted.
SandboxRouted_always(enabled, reply) == enabled

\* `if SANDBOX_ENABLED:` ... `if sandboxed:`: the isolated backend was tried
\* and reports that the command was routed through it.
SandboxRouted(enabled, reply) == enabled /\ reply.sandboxed

\* args.get("command", "")
ArgCommand(args) == IF "command" \in DOMAIN args THEN args["command"] ELSE <<>>

\* tool_run_command(args, ctx) in the environment env = the replies the
\* sandbox and the local subprocess would give.  calls lists the backends
\* invoked, in order.
tool_run_command(args, ctx, env) ==
    LET command  == ArgCommand(args)
        decision == check_command(command, ctx.chat_type, ctx.is_admin)
    IN  IF command = <<>>
        THEN [result |-> ToolResult(FALSE, <<>>, <<"No", "command", "provided">>),
              calls |-> <<>>]
        ELSE IF GateRefuses(decision)
        THEN [result |-> GateRefusal(decision), calls |-> <<>>]
        ELSE IF SandboxRouted(SANDBOX_ENABLED, env.sandbox)
        THEN [result |-> SandboxedResult(env.sandbox), calls |-> <<"sandbox">>]
        ELSE [result |-> LocalResult(env.local),
              calls |-> IF SANDBOX_ENABLED THEN <<"sandbox", "local">> ELSE <<"local">>]

(***************************************************************************)
(* Inputs explored.                                                        *)
(***************************************************************************)
ChatTypes == {"private", "group"}

Commands ==
    { <<"l","s">>,
      <<"r","m"," ","-","r","f"," ","/">>,
      <<"R","M"," "," ","-","R","F">>,
      <<"r","m"," ","-","r","f","x">>,
      <<"k","i","l","l"," ","1">>,
      <<"s","k","i","l","l">>,
      <<"c","h","m","o","d"," ","7","7","7"," ","f">>,
      <<"c","h","o","w","n">>,
      <<"s","u","d","o"," ","l","s">>,
      <<"S","U","D","O"," ","k","i","l","l">>,
      <<"s","u","d","o"," ","k","i","l","l">>,
      <<"c","a","t"," ","e","n","v">> }

PatternRecords ==
    { [pattern |-> <<"s","u","d","o">>, reason |-> <<"no", "sudo">>,
       flags |-> "i", admin_bypass |-> TRUE],
      [pattern |-> <<"s","u","d","o">>, reason |-> <<"sudo", "forbidden">>,
       flags |-> "", admin_bypass |-> FALSE],
      [pattern |-> <<"e","n","v">>, reason |-> <<"env", "leak">>,
       flags |-> "", admin_bypass |-> FALSE],
      [pattern |-> <<"(">>, reason |-> <<"broken">>,
       flags |-> "", admin_bypass |-> FALSE] }

RECURSIVE SeqsUpTo(_, _)
SeqsUpTo(S, n) ==
    IF n = 0 THEN {<<>>}
    ELSE LET shorter == SeqsUpTo(S, n - 1)
         IN  shorter \cup {Append(q, x) : q \in shorter, x \in S}

PatternLists == SeqsUpTo(PatternRecords, MaxPatterns)

LongOutput ==
    <<"h1", "h2", "h3", "h4", "h5", "h6", "h7", "h8", "h9", "h10", "sk-key", "h12",
      "h13", "m1", "m2", "m3", "m4", "m5", "t1", "t2", "t3", "t4", "t5", "t6">>

\* A long output of a failing command that mentions BLOCKED.
LongBlocked == <<"BLOCKED">> \o Tail(LongOutput)

\* A long page that shows a credential.
LongPage == <<"API_KEY=v">> \o Tail(LongOutput)

Unavailable == [success |-> FALSE, output |-> <<"Sandbox", "error">>, sandboxed |-> FALSE]

ExitEmpty == [kind |-> "exit", returncode |-> "0", output |-> <<>>]

\* The replies of the two backends to one command: env.sandbox is what
\* execute_in_sandbox returns, env.local how the local subprocess ends.
Envs ==
    { [sandbox |-> [success |-> TRUE, output |-> <<"sk-key">>, sandboxed |-> TRUE],
       local   |-> ExitEmpty],
      [sandbox |-> [success |-> FALSE, output |-> <<"BLOCKED">>, sandboxed |-> TRUE],
       local   |-> ExitEmpty],
      [sandbox |-> Unavailable, local |-> ExitEmpty],
      [sandbox |-> Unavailable,
       local   |-> [kind |-> "exit", returncode |-> "0", output |-> LongOutput]],
      [sandbox |-> Unavailable,
       local   |-> [kind |-> "exit", returncode |-> "1", output |-> <<"BLOCKED">>]],
      [sandbox |-> Unavailable,
       local   |-> [kind |-> "timeout", returncode |-> "0", output |-> <<>>]],
      [sandbox |-> Unavailable,
       local   |-> [kind |-> "exception", returncode |-> "0", output |-> <<"sk-key">>]] }

\* Paths handed to is_sensitive_file.
Paths ==
    { <<"/","w","/",".","e","n","v">>,
      <<".","e","n","v",".","l","o","c","a","l">>,
      <<"/","w","/","I","D","_","R","S","A">>,
      <<"/","w","/","a",".","p","e","m">>,
      <<"/","w","/","A",".","K","E","Y">>,
      <<"/","w","/",".","p","e","m">>,
      <<"/","h","/",".","s","s","h","/","c">>,
      <<"/","r","u","n","/","s","e","c","r","e","t","s","/","t">>,
      <<"/","w","/","a",".","t","x","t">>,
      <<"/","w","/","e","n","v">> }

NoCall == [op |-> "none"]

(***************************************************************************)
(* tools/web.py and the tool registry                                      *)
(***************************************************************************)
\* args.get(k, default)
Get(d, k, default) == IF k \in DOMAIN d THEN d[k] ELSE default

\* `blocked = ["169.254.169.254", "localhost", "127.", ...]` of tool_fetch_page
InternalHosts == {"169.254.169.254", "localhost", "127.", "10.", "192.168.", "172."}

\* tool_fetch_page(args, ctx).  The search cache is empty: no search has run.
tool_fetch_page(args, ctx, env) ==
    LET url       == Get(args, "url", <<>>)
        result_id == Get(args, "result_id", <<>>)
    IN  IF result_id # <<>> /\ url = <<>>
        THEN ToolResult(FALSE, <<>>, <<"Result">> \o result_id \o <<"not", "found">>)
        ELSE IF url = <<>>
        THEN ToolResult(FALSE, <<>>, <<"url", "or", "result_id", "required">>)
        ELSE IF \E i \in 1..Len(url) : url[i] \in InternalHosts
        THEN ToolResult(FALSE, <<>>, <<"(no-entry)", "Internal", "URL", "blocked">>)
        ELSE IF env.page.kind = "ok"
        THEN ToolResult(TRUE, env.page.content, <<>>)
        ELSE ToolResult(FALSE, <<>>, env.page.content)

\* execute_tool(name, args, ctx): dispatch by name into the registry.
execute_tool(name, args, ctx, env) ==
    CASE name = "run_command" -> tool_run_command(args, ctx, env).result
      [] name = "fetch_page"  -> tool_fetch_page(args, ctx, env)
      [] OTHER -> ToolResult(FALSE, <<>>, <<"Unknown", "tool">>)

(***************************************************************************)
(* tools-api: the MCP server registry (src/mcp.py, src/routes/mcp.py)      *)
(***************************************************************************)
\* Python None in an Optional[str] field.
None == "None"

\* class MCPServer(BaseModel)
MCPServer(name, url, api_key) ==
    [name |-> name, url |-> url, enabled |-> TRUE, transport |-> "http",
     api_key |-> api_key, description |-> None]

\* The message handlers of the userbot that may be in progress at once.
Handlers == {"h1", "h2"}

\* The userbot after start: last_response_time = {}, no handler in progress,
\* nothing sent.  now is the wall clock in seconds since the start; sent is
\* the list of agent responses sent, each with its chat and its time.
UserbotStarted ==
    [ now |-> 0,
      last_response_time |-> <<>>,
      handlers |-> [h \in Handlers |-> [pc |-> "idle"]],
      sent |-> <<>> ]

\* No /data/mcp_servers.json, an empty cache, no request in flight: servers is
\* the config in insertion order, tools the number of cached tools by server,
\* status is mcp_cache.server_status, fetching the requests that await
\* fetch_mcp_tools.
NoServers ==
    [servers |-> <<>>, tools |-> <<>>, status |-> <<>>,
     listed |-> FALSE, response |-> <<>>, fetching |-> <<>>]

ServerNames(servers) == {servers[i].name : i \in 1..Len(servers)}

\* One entry of the listing: {**server.dict(), "tool_count": ..., "status": ...}
ListingEntry(server, tools, status) ==
    [name |-> server.name, url |-> server.url, enabled |-> server.enabled,
     transport |-> server.transport, api_key |-> server.api_key,
     description |-> server.description,
     tool_count |-> Get(tools, server.name, 0),
     status |-> Get(status, server.name, <<>>)]

\* The "servers" list of the response of list_mcp_servers.
Listing(servers, tools, status) ==
    [i \in 1..Len(servers) |-> ListingEntry(servers[i], tools, status)]

\* del d[k] on a dict that may hold k
DelKey(d, k) == [x \in DOMAIN d \ {k} |-> d[x]]

\* del servers[name]
RECURSIVE WithoutServer(_, _)
WithoutServer(servers, name) ==
    IF servers = <<>> THEN <<>>
    ELSE IF Head(servers).name = name THEN WithoutServer(Tail(servers), name)
    ELSE <<Head(servers)>> \o WithoutServer(Tail(servers), name)

(***************************************************************************)
(* agent.py: sessions and history                                          *)
(***************************************************************************)
\* SessionManager.get_key
get_key(user_id, chat_id) == <<user_id, chat_id>>

\* The Session created by SessionManager.get for a new key.
NewSession(user_id, chat_id) ==
    [user_id |-> user_id, chat_id |-> chat_id, cwd |-> <<"/workspace", user_id>>,
     history |-> <<>>, blocked_count |-> 0, source |-> "bot"]

\* Variant: get hands out the session with its blocked_count set back to 0.
SessionsAfterGet_resetsCount(map, user_id, chat_id) ==
    [k \in DOMAIN map \cup {get_key(user_id, chat_id)} |->
        IF k = get_key(user_id, chat_id)
        THEN (IF k \in DOMAIN map THEN [map[k] EXCEPT !.blocked_count = 0]
              ELSE NewSession(user_id, chat_id))
        ELSE map[k]]

\* SessionManager.get: the session map after the call.
SessionsAfterGet(map, user_id, chat_id) ==
    IF get_key(user_id, chat_id) \in DOMAIN map
    THEN map
    ELSE [k \in DOMAIN map \cup {get_key(user_id, chat_id)} |->
             IF k \in DOMAIN map THEN map[k] ELSE NewSession(user_id, chat_id)]

\* Variant: the clear resets every session of the user.
SessionsAfterClear_allChats(map, user_id, chat_id) ==
    [k \in DOMAIN map |->
        IF map[k].user_id = user_id
        THEN [map[k] EXCEPT !.history = <<>>, !.blocked_count = 0]
        ELSE map[k]]

\* SessionManager.clear: the session map after the call.
SessionsAfterClear(map, user_id, chat_id) ==
    IF get_key(user_id, chat_id) \in DOMAIN map
    THEN [map EXCEPT ![get_key(user_id, chat_id)].history = <<>>,
                     ![get_key(user_id, chat_id)].blocked_count = 0]
    ELSE map

\* len(json.dumps(m)), scaled: one unit of framing, the content, and one unit
\* for each tool call the message carries.
MsgSize(m) == 1 + Len(Get(m, "content", <<>>)) + Len(Get(m, "tool_calls", <<>>))

RECURSIVE TotalSize(_)
TotalSize(history) ==
    IF history = <<>> THEN 0 ELSE MsgSize(Head(history)) + TotalSize(Tail(history))

\* Variant: the loop stops at three entries.
RECURSIVE DropOldest_stopsAtThree(_, _)
DropOldest_stopsAtThree(history, max_chars) ==
    IF TotalSize(history) > max_chars /\ Len(history) > 3
    THEN DropOldest_stopsAtThree(Tail(history), max_chars)
    ELSE history

\* Variant: the loop goes on down to one entry.
RECURSIVE DropOldest_belowTwo(_, _)
DropOldest_belowTwo(history, max_chars) ==
    IF TotalSize(history) > max_chars /\ Len(history) > 1
    THEN DropOldest_belowTwo(Tail(history), max_chars)
    ELSE history

\* Variant: an `if` in place of the `while`: one entry dropped per call.
DropOldest_once(history, max_chars) ==
    IF TotalSize(history) > max_chars /\ Len(history) > 2
    THEN Tail(history)
    ELSE history

\* The while loop of trim_history.
RECURSIVE DropOldest(_, _)
DropOldest(history, max_chars) ==
    IF TotalSize(history) > max_chars /\ Len(history) > 2
    THEN DropOldest(Tail(history), max_chars)
    ELSE history

trim_history(history, max_msgs, max_chars) ==
    DropOldest(IF Len(history) > max_msgs
               THEN PyTail(history, max_msgs)     \* history[-max_msgs:]
               ELSE history,
               max_chars)

(***************************************************************************)
(* agent.py: clean_response                                                *)
(***************************************************************************)
ArtifactTags ==
    {"<final>", "</final>", "<response>", "</response>", "<answer>", "</answer>",
     "<output>", "</output>", "<reply>", "</reply>", "<thinking>", "</thinking>"}

\* re.sub(r'<thinking>[\s\S]*?</thinking>', '', text)
RECURSIVE RemoveThinking(_)
RemoveThinking(text) ==
    LET opens == {i \in 1..Len(text) :
                     /\ text[i] = "<thinking>"
                     /\ \E j \in (i + 1)..Len(text) : text[j] = "</thinking>"}
    IN  IF opens = {} THEN text
        ELSE LET i == CHOOSE x \in opens : \A y \in opens : x <= y
                 j == CHOOSE x \in (i + 1)..Len(text) :
                         /\ text[x] = "</thinking>"
                         /\ \A y \in (i + 1)..(x - 1) : text[y] # "</thinking>"
             IN  SubSeq(text, 1, i - 1) \o RemoveThinking(SubSeq(text, j + 1, Len(text)))

\* re.sub(r'</?(final|response|answer|output|reply|thinking)>', '', text)
RECURSIVE RemoveTags(_)
RemoveTags(text) ==
    IF text = <<>> THEN <<>>
    ELSE IF Head(text) \in ArtifactTags THEN RemoveTags(Tail(text))
    ELSE <<Head(text)>> \o RemoveTags(Tail(text))

\* str.strip()
RECURSIVE Strip(_)
Strip(text) ==
    IF text = <<>> THEN <<>>
    ELSE IF IsSpace(Head(text)) THEN Strip(Tail(text))
    ELSE IF IsSpace(text[Len(text)]) THEN Strip(SubSeq(text, 1, Len(text) - 1))
    ELSE text

clean_response(text) == Strip(RemoveTags(RemoveThinking(text)))

(***************************************************************************)
(* agent.py: run_agent                                                     *)
(***************************************************************************)
LOCKOUT == <<"(no-entry)", "Session", "locked", "due", "to", "repeated", "security",
             "violations.", "/clear", "to", "reset.">>

NO_RESPONSE == <<"(no response)">>

SystemMessage(session, source) ==
    [role |-> "system", content |-> <<"prompt", source>>]

\* JSON null (Python None) where a list is expected, kept apart from the
\* empty list.
Null == <<[null |-> TRUE]>>

\* Python truth of a list-or-None value.
Truthy(v) == v # <<>> /\ v # Null

\* `a or b` on strings; a missing value counts as the empty string.
PyOr(a, b) == IF a # <<>> THEN a ELSE b

\* d[k] = v on a dict
SetKey(d, k, v) == [x \in DOMAIN d \cup {k} |-> IF x = k THEN v ELSE d[x]]

\* A parsed JSON value that is not an object (a list, a number, a string, null).
NonObject(v) == [non_object |-> v]

IsObject(args) == "non_object" \notin DOMAIN args

\* json.dumps(obj): the text of an object.
JsonDumps(obj) == [json |-> "object", value |-> obj]

\* json.loads(raw_args) under `except Exception: args = {}`.  A text is an
\* object's, another JSON value's ("array"), or not JSON at all ("invalid").
ParseArgs(raw_args) ==
    CASE raw_args.json = "object" -> raw_args.value
      [] raw_args.json = "array"  -> NonObject(raw_args.value)
      [] OTHER -> <<>>

\* The reasoning channel of an assistant message: text is its characters,
\* objects the brace-delimited chunks it holds, in order, path the first match
\* of the /workspace/... file regex and pptx the first bare .pptx name.
NoReasoning == [text |-> <<>>, objects |-> <<>>, path |-> <<>>, pptx |-> <<>>]

ReasoningPresent(reasoning) == reasoning.text # <<>> \/ reasoning.objects # <<>>

\* `msg.get("reasoning_content") or msg.get("reasoning") or ""`
ReasoningOf(msg) ==
    IF ReasoningPresent(Get(msg, "reasoning_content", NoReasoning))
    THEN Get(msg, "reasoning_content", NoReasoning)
    ELSE Get(msg, "reasoning", NoReasoning)

\* The reasoning text taken as message content.
ReasoningAsContent(reasoning) ==
    reasoning.text \o [i \in 1..Len(reasoning.objects) |-> "{json}"]

\* A synthetic tool call.
SyntheticCall(id, name, args) ==
    [id |-> id, type |-> "function",
     function |-> [name |-> name, arguments |-> JsonDumps(args)]]

\* Mutant of ScrapeToolName: path looked up first.
ScrapeToolName_pathFirst(reasoning_json) ==
    IF "path" \in DOMAIN reasoning_json THEN "read_file"
    ELSE IF "command" \in DOMAIN reasoning_json THEN "run_command"
    ELSE IF "query" \in DOMAIN reasoning_json THEN "search_web"
    ELSE IF "url" \in DOMAIN reasoning_json THEN "fetch_page"
    ELSE "none"

\* "Determine tool from keys"
ScrapeToolName(reasoning_json) ==
    IF "command" \in DOMAIN reasoning_json THEN "run_command"
    ELSE IF "query" \in DOMAIN reasoning_json THEN "search_web"
    ELSE IF "url" \in DOMAIN reasoning_json THEN "fetch_page"
    ELSE IF "path" \in DOMAIN reasoning_json THEN "read_file"
    ELSE "none"

\* "Try to extract JSON tool call from reasoning": the tool calls after the
\* block, <<>> when it synthesizes nothing.  Only the first chunk is parsed.
JsonScrape(reasoning, iteration) ==
    IF reasoning.objects = <<>> \/ reasoning.objects[1].json # "object"
    THEN <<>>
    ELSE LET reasoning_json == reasoning.objects[1].value
             id == "reasoning_" \o ToString(iteration)
         IN  IF "cursor" \in DOMAIN reasoning_json \/ "id" \in DOMAIN reasoning_json
             THEN << SyntheticCall(id, "fetch_page",
                         [result_id |-> PyOr(Get(reasoning_json, "cursor", <<>>),
                                             Get(reasoning_json, "id", <<>>))]) >>
             ELSE IF ScrapeToolName(reasoning_json) # "none"
             THEN << SyntheticCall(id, ScrapeToolName(reasoning_json), reasoning_json) >>
             ELSE <<>>

intent_patterns ==
    << [pattern |-> <<"l","e","t","'","s"," ","l","i","s","t">>,
        tool_name |-> "list_directory", default_args |-> [path |-> <<".">>]],
       [pattern |-> <<"l","i","s","t"," ","d","i","r">>,
        tool_name |-> "list_directory", default_args |-> [path |-> <<".">>]],
       [pattern |-> <<"l","e","t","'","s"," ","c","h","e","c","k">>,
        tool_name |-> "list_directory", default_args |-> [path |-> <<".">>]],
       [pattern |-> <<"l","e","t","'","s"," ","s","e","n","d">>,
        tool_name |-> "send_file", default_args |-> <<>>],
       [pattern |-> <<"s","e","n","d"," ","t","h","e"," ","f","i","l","e">>,
        tool_name |-> "send_file", default_args |-> <<>>],
       [pattern |-> <<"l","e","t","'","s"," ","r","e","a","d">>,
        tool_name |-> "read_file", default_args |-> <<>>],
       [pattern |-> <<"l","e","t","'","s"," ","s","e","a","r","c","h">>,
        tool_name |-> "search_web", default_args |-> <<>>],
       [pattern |-> <<"l","e","t","'","s"," ","f","e","t","c","h">>,
        tool_name |-> "fetch_page", default_args |-> <<>>] >>

\* The intent patterns found in the lowered reasoning text.
IntentHits(reasoning) ==
    {i \in 1..Len(intent_patterns) :
        Contains(LowerText(reasoning.text), intent_patterns[i].pattern)}

\* The for loop over intent_patterns: it stops at the first pattern found,
\* whether or not a call could be built for it.
IntentScan(reasoning, iteration) ==
    IF IntentHits(reasoning) = {} THEN <<>>
    ELSE LET i    == CHOOSE x \in IntentHits(reasoning) :
                         \A y \in IntentHits(reasoning) : x <= y
             p    == intent_patterns[i]
             args == IF reasoning.path # <<>>
                     THEN SetKey(p.default_args, "path", reasoning.path)
                     ELSE IF p.tool_name = "send_file" /\ reasoning.pptx # <<>>
                     THEN SetKey(p.default_args, "path", reasoning.pptx)
                     ELSE p.default_args
         IN  IF args # <<>> \/ p.tool_name = "list_directory"
             THEN << SyntheticCall("intent_" \o ToString(iteration), p.tool_name, args) >>
             ELSE <<>>

\* `if reasoning and not tool_calls:`
ScrapeGuard(reasoning, tool_calls) == ReasoningPresent(reasoning) /\ ~Truthy(tool_calls)

\* Mutant of IntentGuard: the content of the turn is not consulted.
IntentGuard_anyContent(content, tool_calls, reasoning) ==
    ~Truthy(tool_calls) /\ ReasoningPresent(reasoning)

\* `if not content and not tool_calls and reasoning:`
IntentGuard(content, tool_calls, reasoning) ==
    content = <<>> /\ ~Truthy(tool_calls) /\ ReasoningPresent(reasoning)

\* run_agent from "Check for tool calls" to "Log what we got": the tool calls
\* and the content of the turn, and the assistant message as the two blocks
\* leave it (they assign msg["tool_calls"] and msg["content"] in place).
Recover(msg, iteration) ==
    LET tool_calls0 == Get(msg, "tool_calls", <<>>)
        content0    == Get(msg, "content", <<>>)
        reasoning   == ReasoningOf(msg)
        scraped     == IF ScrapeGuard(reasoning, tool_calls0)
                       THEN JsonScrape(reasoning, iteration) ELSE <<>>
        tool_calls1 == IF scraped # <<>> THEN scraped ELSE tool_calls0
        msg1        == IF scraped # <<>> THEN SetKey(msg, "tool_calls", scraped) ELSE msg
        scans       == IntentGuard(content0, tool_calls1, reasoning)
        intent      == IF scans THEN IntentScan(reasoning, iteration) ELSE <<>>
        tool_calls2 == IF intent # <<>> THEN intent ELSE tool_calls1
        msg2        == IF intent # <<>> THEN SetKey(msg1, "tool_calls", intent) ELSE msg1
        gives_up    == scans /\ ~Truthy(tool_calls2)
    IN  [tool_calls |-> tool_calls2,
         content    |-> IF gives_up THEN ReasoningAsContent(reasoning) ELSE content0,
         msg        |-> IF gives_up
                        THEN SetKey(msg2, "content", ReasoningAsContent(reasoning))
                        ELSE msg2]

\* Mutant of IsGatewayError: the error key is not looked at.
IsGatewayError_never(result) == FALSE

\* `if "error" in result:`
IsGatewayError(result) == "error" \in DOMAIN result

\* Mutant of BudgetLeft: <= in place of <.
BudgetLeft_offByOne(iteration) == iteration <= max_iterations

\* `while iteration < CONFIG.max_iterations:`
BudgetLeft(iteration) == iteration < max_iterations

\* Mutant of AppendToolMessage: the tool message is put before the message
\* appended last.
AppendToolMessage_swapped(messages, m) ==
    SubSeq(messages, 1, Len(messages) - 1) \o <<m, messages[Len(messages)]>>

\* `messages.append({"role": "tool", ...})`
AppendToolMessage(messages, m) == Append(messages, m)

\* The tools reached with arguments that are not an object raise
\* AttributeError at their first args.get (bash.py:29, web.py:55).
ToolRaises(name, args) == ~IsObject(args) /\ name \in {"run_command", "fetch_page"}

\* `not tool_result.success and "BLOCKED" in (tool_result.error or "")`
SignalsBlock(tool_result) ==
    ~tool_result.success /\ Contains(tool_result.error, <<"BLOCKED">>)

\* Mutant of LockedOut: the lockout return never taken.
LockedOut_never(blocked_count) == FALSE

\* Mutant of LockedOut: > in place of >=.
LockedOut_strict(blocked_count) == blocked_count > max_blocked_commands

\* `session.blocked_count >= CONFIG.max_blocked_commands`
LockedOut(blocked_count) == blocked_count >= max_blocked_commands

\* `session.blocked_count += 1`
CountAfterBlock(blocked_count) == blocked_count + 1

\* Variant: the cut keeps the head and the marker and drops the tail.
TrimToolOutput_headOnly(output) ==
    IF Len(output) > max_tool_output
    THEN PyHead(output, (max_tool_output * 6) \div 10) \o <<TRIMMED>>
    ELSE output

\* "Trim long output" of run_agent: int(max * 0.6), int(max * 0.3).
TrimToolOutput(output) ==
    IF Len(output) > max_tool_output
    THEN PyHead(output, (max_tool_output * 6) \div 10)
         \o <<TRIMMED>>
         \o PyTail(output, (max_tool_output * 3) \div 10)
    ELSE output

\* The content of the tool message built from a tool result.
ToolMessageContent(tool_result) ==
    TrimToolOutput(
        IF tool_result.success
        THEN (IF tool_result.output = <<>> THEN <<"(empty)">> ELSE tool_result.output)
        ELSE <<"Error:">> \o (IF tool_result.error = <<>>
                              THEN <<"Unknown", "error">> ELSE tool_result.error))

\* content.split('\n')[0]
RECURSIVE SplitFirst(_)
SplitFirst(content) ==
    IF content = <<>> \/ Head(content) = "\n" THEN <<>>
    ELSE <<Head(content)>> \o SplitFirst(Tail(content))

\* content.split('\n')[0][:100]
FirstLine(content) == PyHead(SplitFirst(content), FirstLineChars)

\* The tool_outputs list of the fallback block of run_agent.
RECURSIVE ToolOutputs(_)
ToolOutputs(messages) ==
    IF messages = <<>> THEN <<>>
    ELSE LET m == Head(messages)
             content == Get(m, "content", <<>>)
             first_line == FirstLine(content)
             keep == /\ Get(m, "role", "") = "tool"
                     /\ content # <<>>
                     /\ content[1] # "Error:"
                     /\ first_line # <<>>
                     /\ first_line # <<"(empty)">>
         IN  (IF keep THEN <<first_line>> ELSE <<>>) \o ToolOutputs(Tail(messages))

\* "Fallback: if no response but had successful tool calls, generate summary"
Fallback(final_response, iteration, messages) ==
    LET tool_outputs == ToolOutputs(messages)
    IN  IF final_response = <<>> /\ iteration > 1 /\ tool_outputs # <<>>
        THEN IF Len(tool_outputs) = 1
             THEN <<"Done!">> \o tool_outputs[1]
             ELSE <<"(check)", "Done">>
        ELSE final_response

\* Variant: the answer is saved before the user message.
HistoryAfterRun_answerFirst(history, message, final_response) ==
    trim_history(
        history
        \o (IF final_response # <<>>
            THEN <<[role |-> "assistant", content |-> final_response]>> ELSE <<>>)
        \o <<[role |-> "user", content |-> message]>>,
        max_history * 2, HistoryChars)

\* Variant: the exchange is saved and the history is not trimmed.
HistoryAfterRun_untrimmed(history, message, final_response) ==
    Append(history, [role |-> "user", content |-> message])
    \o (IF final_response # <<>>
        THEN <<[role |-> "assistant", content |-> final_response]>> ELSE <<>>)

\* "Save to history" and "Trim history" of run_agent.
HistoryAfterRun(history, message, final_response) ==
    trim_history(
        Append(history, [role |-> "user", content |-> message])
        \o (IF final_response # <<>>
            THEN <<[role |-> "assistant", content |-> final_response]>> ELSE <<>>),
        max_history * 2, HistoryChars)

\* `return final_response or "(no response)"`
Returned(final_response) ==
    LET cleaned == clean_response(final_response)
    IN  IF cleaned = <<>> THEN NO_RESPONSE ELSE cleaned

(***************************************************************************)
(* The run_agent coroutines.  A coroutine runs without interruption from   *)
(* one await to the next: it waits in call_llm ("await_llm") or in         *)
(* execute_tool ("await_tool").                                            *)
(***************************************************************************)
Tasks == {"t1", "t2"}

\* SessionManager.__init__: self.sessions = {}
NoSessions == <<>>

Idle == [pc |-> "idle"]

NoStep == [kind |-> "none"]

\* Tool calls the model may emit.
CallSudo ==
    [id |-> "c_sudo", type |-> "function",
     function |-> [name |-> "run_command",
                   arguments |-> [json |-> "object",
                                  value |-> [command |-> <<"s","u","d","o"," ","l","s">>]]]]

CallKill ==
    [id |-> "c_kill", type |-> "function",
     function |-> [name |-> "run_command",
                   arguments |-> [json |-> "object",
                                  value |-> [command |-> <<"k","i","l","l"," ","1">>]]]]

CallLs ==
    [id |-> "c_ls", type |-> "function",
     function |-> [name |-> "run_command",
                   arguments |-> [json |-> "object", value |-> [command |-> <<"l","s">>]]]]

CallFetch ==
    [id |-> "c_fetch", type |-> "function",
     function |-> [name |-> "fetch_page",
                   arguments |-> [json |-> "object",
                                  value |-> [url |-> <<"https://", "site", "/page">>]]]]

\* run_command whose arguments text is not JSON.
CallBadArgs ==
    [id |-> "c_bad", type |-> "function",
     function |-> [name |-> "run_command", arguments |-> [json |-> "invalid"]]]

\* run_command whose arguments text is the JSON list ["ls"].
CallArray ==
    [id |-> "c_array", type |-> "function",
     function |-> [name |-> "run_command",
                   arguments |-> [json |-> "array", value |-> <<"ls">>]]]

\* A message that carries reasoning and no tool_calls key.
ReasoningTurn(content, reasoning) ==
    [choices |-> << [message |-> [role |-> "assistant", content |-> content,
                                  reasoning |-> reasoning],
                     finish_reason |-> "stop"] >>]

\* A message with content only.
ContentTurn(content) ==
    [choices |-> << [message |-> [role |-> "assistant", content |-> content],
                     finish_reason |-> "stop"] >>]

\* Reasoning that holds {"command": "ls"}.
ReasoningLs ==
    [text |-> <<"r","u","n">>,
     objects |-> << [json |-> "object", value |-> [command |-> <<"l","s">>]] >>,
     path |-> <<>>, pptx |-> <<>>]

AssistantTurn(content, tool_calls, finish_reason) ==
    [choices |-> << [message |-> [role |-> "assistant", content |-> content,
                                  tool_calls |-> tool_calls],
                     finish_reason |-> finish_reason] >>]

\* What call_llm may return.
LLMResults ==
    { [error |-> <<"LLM", "error", "500">>],
      [choices |-> <<>>],
      AssistantTurn(<<"4">>, <<>>, "stop"),
      AssistantTurn(<<>>, <<CallSudo, CallLs>>, "tool_calls"),
      AssistantTurn(<<>>, <<CallKill, CallFetch>>, "tool_calls"),
      AssistantTurn(<<>>, <<CallBadArgs, CallArray>>, "tool_calls"),
      AssistantTurn(<<"4">>, Null, "stop"),
      ContentTurn(<<"<thinking>", "hm", "</thinking>">>),
      ReasoningTurn(<<>>, ReasoningLs) }

\* The environments a tool call of a run may meet.
AgentEnvs ==
    { [sandbox |-> [success |-> TRUE, output |-> LongOutput, sandboxed |-> TRUE],
       local   |-> ExitEmpty,
       page    |-> [kind |-> "ok", content |-> LongPage]],
      [sandbox |-> Unavailable,
       local   |-> [kind |-> "exit", returncode |-> "1", output |-> LongBlocked],
       page    |-> [kind |-> "exception", content |-> <<"timeout">>]] }

SessionUsers == {1}

SessionChats == {1, 2}

UserMessages == {<<"2+2?">>}

Sources == {"bot"}

AgentPatternLists ==
    { << [pattern |-> <<"s","u","d","o">>, reason |-> <<"no", "sudo">>,
          flags |-> "i", admin_bypass |-> TRUE] >> }

InitAgent ==
    /\ BLOCKED_PATTERNS \in AgentPatternLists
    /\ SANDBOX_ENABLED = TRUE
    /\ sec = NoCall
    /\ sessions = NoSessions
    /\ run = [t \in Tasks |-> Idle]
    /\ started = 0
    /\ mcp = NoServers
    /\ userbot = UserbotStarted

\* Variant: the whole list, system message included, goes through trim_history.
BuildContext_trimAll(system, history, message) ==
    trim_history(<<system>> \o history \o <<[role |-> "user", content |-> message]>>,
                 max_context_messages, ContextChars)

\* "Build messages" and "Trim context if too long" of run_agent.
BuildContext(system, history, message) ==
    LET messages == <<system>> \o history \o <<[role |-> "user", content |-> message]>>
    IN  <<messages[1]>>
        \o trim_history(Tail(messages), max_context_messages, ContextChars)

\* run_agent from its entry to the first call of call_llm: what it does to
\* the sessions, the run and the count of runs.
Entered(t, user_id, chat_id, message, chat_type, source, runs) ==
    /\ run[t].pc = "idle"
    /\ started < runs
    /\ LET key      == get_key(user_id, chat_id)
           map      == SessionsAfterGet(sessions, user_id, chat_id)
           session  == [map[key] EXCEPT !.source = source]
           messages == BuildContext(SystemMessage(session, source),
                                    session.history, message)
       IN  /\ sessions' = [map EXCEPT ![key] = session]
           /\ run' = [run EXCEPT ![t] =
                        [pc |-> "await_llm", key |-> key, message |-> message,
                         messages |-> messages,
                         tool_ctx |-> ToolContext(session.cwd, user_id, chat_id,
                                                  chat_type, source),
                         iteration |-> 1, tool_calls |-> <<>>, tc |-> 0,
                         llm_calls |-> 1, dispatched |-> 0, succeeded |-> 0,
                         call |-> NoStep, last |-> NoStep, saved |-> FALSE,
                         final_response |-> <<>>, response |-> <<>>]]
    /\ started' = started + 1

\* run_agent is called (by the chat endpoint or by the scheduler callback).
RunStart(t, user_id, chat_id, message, chat_type, source, runs) ==
    /\ Entered(t, user_id, chat_id, message, chat_type, source, runs)
    /\ UNCHANGED <<userbot, mcp, BLOCKED_PATTERNS, SANDBOX_ENABLED, sec>>

\* The run returns text to its caller.
Return(r, text) == [r EXCEPT !.pc = "done", !.response = text]

\* "No response from model"
NO_CHOICES == <<"No", "response", "from", "model">>

\* Variant: an early return saves the user message like the end of the loop.
EarlyReturn_saves(map, r, text) ==
    [map |-> [map EXCEPT ![r.key].history =
                  Append(@, [role |-> "user", content |-> r.message])],
     r   |-> Return(r, text)]

\* The `return` statements inside the loop of run_agent (gateway error, no
\* choices, lockout): the session map and the run after them.
EarlyReturn(map, r, text) == [map |-> map, r |-> Return(r, text)]

\* An exception leaves run_agent.
Raise(r, exception) == [r EXCEPT !.pc = "raised", !.response = exception]

\* The end of run_agent, from the fallback block to the return statement:
\* the session map and the run after it.
Finish(map, r, final_response) ==
    LET answer == Fallback(final_response, r.iteration, r.messages)
    IN  [map |-> [map EXCEPT ![r.key].history =
                      HistoryAfterRun(@, r.message, answer)],
         r   |-> Return([r EXCEPT !.saved = TRUE, !.final_response = answer],
                        Returned(answer))]

\* The run parses the arguments of tool call number i of the turn, hands the
\* call to execute_tool and waits for it.
Dispatch(r, i) ==
    LET fn == Get(r.tool_calls[i], "function", <<>>)
    IN  [r EXCEPT !.pc = "await_tool", !.tc = i, !.dispatched = @ + 1,
                  !.call = [name |-> Get(fn, "name", ""),
                            args |-> ParseArgs(Get(fn, "arguments",
                                                   JsonDumps(<<>>)))]]

\* run_agent from the return of call_llm to its next await, its return or
\* the exception that leaves it.
LLMReturn(t, result) ==
    /\ run[t].pc = "await_llm"
    /\ LET r == [run[t] EXCEPT !.last = [kind |-> "llm", result |-> result]]
       IN  IF IsGatewayError(result)
           THEN /\ run' = [run EXCEPT ![t] =
                             EarlyReturn(sessions, r, <<"Error:">> \o result.error).r]
                /\ sessions' = EarlyReturn(sessions, r, <<"Error:">> \o result.error).map
           ELSE IF Get(result, "choices", <<>>) = <<>>
           THEN /\ run' = [run EXCEPT ![t] = EarlyReturn(sessions, r, NO_CHOICES).r]
                /\ sessions' = EarlyReturn(sessions, r, NO_CHOICES).map
           ELSE LET msg == Get(result.choices[1], "message", <<>>)
                    out == Recover(msg, r.iteration)
                    r1  == [r EXCEPT !.messages = Append(@, out.msg),
                                     !.tool_calls = out.tool_calls]
                IN  IF out.tool_calls = Null
                    THEN \* len(tool_calls) of "Log what we got"
                         /\ run' = [run EXCEPT ![t] =
                                      Raise(r1, <<"TypeError:", "NoneType", "has", "no", "len()">>)]
                         /\ sessions' = sessions
                    ELSE IF out.tool_calls # <<>>
                    THEN /\ run' = [run EXCEPT ![t] = Dispatch(r1, 1)]
                         /\ sessions' = sessions
                    ELSE /\ run' = [run EXCEPT ![t] = Finish(sessions, r1, out.content).r]
                         /\ sessions' = Finish(sessions, r1, out.content).map
    /\ UNCHANGED <<userbot, mcp, BLOCKED_PATTERNS, SANDBOX_ENABLED, sec, started>>

\* run_agent from the return of execute_tool to its next await, its return
\* or the exception that leaves it.
ToolReturn(t, env) ==
    /\ run[t].pc = "await_tool"
    /\ LET r    == run[t]
           name == r.call.name
           args == r.call.args
       IN  IF ToolRaises(name, args)
           THEN /\ run' = [run EXCEPT ![t] =
                             Raise([r EXCEPT !.last = [kind |-> "tool_raised"]],
                                   <<"AttributeError:", "no", "attribute", "get">>)]
                /\ sessions' = sessions
           ELSE
           LET tool_result == execute_tool(name, args, r.tool_ctx, env)
               count       == IF SignalsBlock(tool_result)
                              THEN CountAfterBlock(sessions[r.key].blocked_count)
                              ELSE sessions[r.key].blocked_count
               map         == [sessions EXCEPT ![r.key].blocked_count = count]
               r1          == [r EXCEPT !.last = [kind |-> "tool", name |-> name,
                                                  args |-> args, result |-> tool_result,
                                                  env |-> env],
                                        !.succeeded = IF tool_result.success
                                                      THEN @ + 1 ELSE @]
               r2          == [r1 EXCEPT !.messages =
                                  AppendToolMessage(@,
                                      [role |-> "tool",
                                       tool_call_id |-> Get(r.tool_calls[r.tc], "id", ""),
                                       content |-> ToolMessageContent(tool_result)])]
           IN  IF SignalsBlock(tool_result) /\ LockedOut(count)
               THEN /\ run' = [run EXCEPT ![t] = EarlyReturn(map, r1, LOCKOUT).r]
                    /\ sessions' = EarlyReturn(map, r1, LOCKOUT).map
               ELSE IF r.tc < Len(r.tool_calls)
               THEN /\ run' = [run EXCEPT ![t] = Dispatch(r2, r.tc + 1)]
                    /\ sessions' = map
               ELSE IF BudgetLeft(r.iteration)
               THEN /\ run' = [run EXCEPT ![t] =
                                 [r2 EXCEPT !.pc = "await_llm", !.iteration = @ + 1,
                                            !.llm_calls = @ + 1]]
                    /\ sessions' = map
               ELSE /\ run' = [run EXCEPT ![t] = Finish(map, r2, <<>>).r]
                    /\ sessions' = Finish(map, r2, <<>>).map
    /\ UNCHANGED <<userbot, mcp, BLOCKED_PATTERNS, SANDBOX_ENABLED, sec, started>>

\* The caller of run_agent (the chat endpoint, the scheduler) takes the response.
RunReturns(t) ==
    /\ run[t].pc \in {"done", "raised"}
    /\ run' = [run EXCEPT ![t] = Idle]
    /\ UNCHANGED <<userbot, mcp, BLOCKED_PATTERNS, SANDBOX_ENABLED, sec, sessions, started>>

\* The clear endpoint: sessions.clear(user_id, chat_id).
Clear(user_id, chat_id) ==
    /\ sessions' = SessionsAfterClear(sessions, user_id, chat_id)
    /\ UNCHANGED <<userbot, mcp, BLOCKED_PATTERNS, SANDBOX_ENABLED, sec, run, started>>

NextAgent(tasks, chats, results, messages, runs) ==
    \/ \E t \in tasks, user_id \in SessionUsers, chat_id \in chats,
          message \in messages, chat_type \in ChatTypes, source \in Sources :
          RunStart(t, user_id, chat_id, message, chat_type, source, runs)
    \/ \E t \in tasks, result \in results : LLMReturn(t, result)
    \/ \E t \in tasks, env \in AgentEnvs : ToolReturn(t, env)
    \/ \E t \in tasks : RunReturns(t)
    \/ \E user_id \in SessionUsers, chat_id \in chats : Clear(user_id, chat_id)

\* One run_agent at a time, with clear requests arriving at any moment.
Spec == InitAgent /\ [][NextAgent({"t1"}, {1}, LLMResults, UserMessages, MaxRuns)]_vars

\* The replies explored when two runs overlap.
ShortLLMResults ==
    { AssistantTurn(<<"4">>, <<>>, "stop"),
      AssistantTurn(<<>>, <<CallKill>>, "tool_calls") }

\* Two run_agent coroutines on the event loop at once (two chat requests, or a
\* chat request and a scheduled task), with clear requests at any moment.
SpecConcurrent == InitAgent /\ [][NextAgent(Tasks, SessionChats, ShortLLMResults, UserMessages, MaxRuns)]_vars

(***************************************************************************)
(* The tool-call recovery of one assistant turn on its own.                *)
(***************************************************************************)
ScrapeKeys == {"cursor", "id", "command", "query", "url", "path", "note"}

KeyValue ==
    [cursor |-> <<"2">>, id |-> <<"3">>, command |-> <<"l","s">>, query |-> <<"q">>,
     url |-> <<"u">>, path |-> <<"p">>, note |-> <<"n">>]

\* The JSON objects a reasoning text may hold; cursor may be the empty string.
ReasoningObjects ==
    { [k \in S |-> IF k = "cursor" THEN c ELSE KeyValue[k]] :
          S \in SUBSET ScrapeKeys, c \in {<<"2">>, <<>>} }

\* The brace-delimited chunks of a reasoning text: none, one that is not JSON,
\* one object, or a chunk that is not JSON followed by an object.
ReasoningChunks ==
    { <<>>, << [json |-> "invalid"] >>,
      << [json |-> "invalid"], [json |-> "object", value |-> [command |-> <<"l","s">>]] >> }
    \cup { << [json |-> "object", value |-> o] >> : o \in ReasoningObjects }

\* The words around the chunks, with the regex matches they hold.
ReasoningWords ==
    { [text |-> <<>>, path |-> <<>>, pptx |-> <<>>],
      [text |-> <<"h","m">>, path |-> <<>>, pptx |-> <<>>],
      [text |-> <<"L","e","t","'","s"," ","l","i","s","t"," ","d","i","r">>,
       path |-> <<>>, pptx |-> <<>>],
      [text |-> <<"l","e","t","'","s"," ","r","e","a","d">>, path |-> <<>>, pptx |-> <<>>],
      [text |-> <<"l","e","t","'","s"," ","r","e","a","d">>,
       path |-> <<"/workspace/a.txt">>, pptx |-> <<>>],
      [text |-> <<"O","k",","," ","s","e","n","d"," ","t","h","e"," ","f","i","l","e">>,
       path |-> <<>>, pptx |-> <<"deck.pptx">>] }

RecoveryReasonings ==
    { [text |-> w.text, objects |-> c, path |-> w.path, pptx |-> w.pptx] :
          w \in ReasoningWords, c \in ReasoningChunks }

\* The tool_calls of a message: key absent, empty list, null, one call.
ToolCallShapes == { <<"absent">>, <<"list", <<>>>>, <<"list", Null>>, <<"list", <<CallLs>>>> }

\* The assistant messages handed to the recovery.
RecoveryMessage(content, shape, key, reasoning) ==
    LET m0 == [role |-> "assistant", content |-> content]
        m1 == IF shape[1] = "absent" THEN m0 ELSE SetKey(m0, "tool_calls", shape[2])
    IN  IF ReasoningPresent(reasoning) THEN SetKey(m1, key, reasoning) ELSE m1

\* One assistant turn goes through the recovery blocks of run_agent.
RecoverCall ==
    /\ sec = NoCall
    /\ \E content \in {<<>>, <<"ok">>}, shape \in ToolCallShapes,
          key \in {"reasoning", "reasoning_content"},
          reasoning \in RecoveryReasonings, iteration \in 1..max_iterations :
          LET msg == RecoveryMessage(content, shape, key, reasoning)
          IN  sec' = [op |-> "recover", msg |-> msg, iteration |-> iteration,
                      out |-> Recover(msg, iteration)]
    /\ UNCHANGED <<userbot, mcp, BLOCKED_PATTERNS, SANDBOX_ENABLED, sessions, run, started>>

\* The caller takes the result of the recovery.
RecoverReturns ==
    /\ sec # NoCall
    /\ sec' = NoCall
    /\ UNCHANGED <<userbot, mcp, BLOCKED_PATTERNS, SANDBOX_ENABLED, sessions, run, started>>

NextRecovery == RecoverCall \/ RecoverReturns

SpecRecovery == InitAgent /\ [][NextRecovery]_vars

(***************************************************************************)
(* The security gate and the shell tool called on their own.               *)
(***************************************************************************)
InitSecurity ==
    /\ BLOCKED_PATTERNS \in PatternLists
    /\ SANDBOX_ENABLED = FALSE
    /\ sec = NoCall
    /\ sessions = NoSessions
    /\ run = [t \in Tasks |-> Idle]
    /\ started = 0
    /\ mcp = NoServers
    /\ userbot = UserbotStarted

\* set_sandbox_enabled(enabled)
set_sandbox_enabled ==
    /\ sec = NoCall
    /\ \E enabled \in BOOLEAN : SANDBOX_ENABLED' = enabled
    /\ UNCHANGED <<userbot, mcp, BLOCKED_PATTERNS, sec, sessions, run, started>>

\* One call of check_command.
CheckCommandCall ==
    /\ sec = NoCall
    /\ \E command \in Commands, chat_type \in ChatTypes, is_admin \in BOOLEAN :
          sec' = [op |-> "check", command |-> command, chat_type |-> chat_type,
                  is_admin |-> is_admin,
                  decision |-> check_command(command, chat_type, is_admin)]
    /\ UNCHANGED <<userbot, mcp, BLOCKED_PATTERNS, SANDBOX_ENABLED, sessions, run, started>>

\* One call of tool_run_command.
RunCommandCall ==
    /\ sec = NoCall
    /\ \E command \in Commands \cup {<<>>}, chat_type \in ChatTypes,
          is_admin \in BOOLEAN, env \in Envs :
          LET ctx == [ToolContext(<<"workspace", 1>>, 1, 1, chat_type, "bot")
                        EXCEPT !.is_admin = is_admin]
              out == tool_run_command([command |-> command], ctx, env)
          IN  sec' = [op |-> "shell", command |-> command, chat_type |-> chat_type,
                      is_admin |-> is_admin,
                      decision |-> check_command(command, chat_type, is_admin),
                      sandbox_enabled |-> SANDBOX_ENABLED,
                      env |-> env, result |-> out.result, calls |-> out.calls]
    /\ UNCHANGED <<userbot, mcp, BLOCKED_PATTERNS, SANDBOX_ENABLED, sessions, run, started>>

\* One call of is_sensitive_file.
SensitiveFileCall ==
    /\ sec = NoCall
    /\ \E path \in Paths :
          sec' = [op |-> "sensitive", path |-> path, result |-> is_sensitive_file(path)]
    /\ UNCHANGED <<userbot, mcp, BLOCKED_PATTERNS, SANDBOX_ENABLED, sessions, run, started>>

\* The caller takes the returned value; the next call can be made.
CallReturns ==
    /\ sec # NoCall
    /\ sec' = NoCall
    /\ UNCHANGED <<userbot, mcp, BLOCKED_PATTERNS, SANDBOX_ENABLED, sessions, run, started>>

NextSecurity ==
    set_sandbox_enabled \/ CheckCommandCall \/ RunCommandCall \/ SensitiveFileCall
    \/ CallReturns

SpecSecurity == InitSecurity /\ [][NextSecurity]_vars

(***************************************************************************)
(* Properties.                                                             *)
(***************************************************************************)
\* The run of task t is in progress: it has started and not yet returned.
Active(t) == run[t].pc \in {"await_llm", "await_tool"}

\* This step is task t's handling of a tool result.
ToolStep(t) == run[t].pc = "await_tool" /\ run'[t] # run[t]

\* This step is task t's handling of a tool result that signals a security block.
BlockStep(t) ==
    ToolStep(t) /\ run'[t].last.kind = "tool" /\ SignalsBlock(run'[t].last.result)

\* The tool call task t waits for was refused by the Security Gate.
GateRefusedCall(t) ==
    LET args == run[t].call.args
        d    == check_command(ArgCommand(args), run[t].tool_ctx.chat_type,
                              run[t].tool_ctx.is_admin)
    IN  /\ run[t].call.name = "run_command"
        /\ ArgCommand(args) # <<>>
        /\ (d.blocked \/ d.dangerous)

\* C1: while a run of a session is in progress no other run of that session is
\* in progress, and nothing but that run (no other run, no clear) changes the
\* session's history or blocked_count.
C1_ExclusiveSession ==
    [][ /\ \A t1, t2 \in Tasks :
             (t1 # t2 /\ Active(t1)' /\ Active(t2)') => run'[t1].key # run'[t2].key
        /\ \A t \in Tasks :
             (Active(t) /\ run'[t] = run[t]) =>
                 /\ sessions'[run[t].key].history = sessions[run[t].key].history
                 /\ sessions'[run[t].key].blocked_count
                        = sessions[run[t].key].blocked_count ]_vars

\* C2: when a tool result signalling a block brings blocked_count to the
\* threshold, the run returns the lockout message in that very step, with no
\* further gateway call and no further tool dispatch; a returned run does
\* nothing more.
C2_LockoutAtOnce ==
    [][ \A t \in Tasks :
          /\ (BlockStep(t)
              /\ sessions'[run[t].key].blocked_count >= max_blocked_commands)
             => /\ run'[t].pc = "done"
                /\ run'[t].response = LOCKOUT
                /\ run'[t].llm_calls = run[t].llm_calls
                /\ run'[t].dispatched = run[t].dispatched
                /\ run'[t].messages = run[t].messages
          /\ run[t].pc = "done" => run'[t].pc \in {"done", "idle"} ]_vars

\* C2 witness: a run locked out at the first tool call of a two-call turn.
C2_Witness ==
    \E t \in Tasks :
        /\ run[t].pc = "done"
        /\ run[t].response = LOCKOUT
        /\ run[t].tc < Len(run[t].tool_calls)
        /\ run[t].dispatched = run[t].tc

C4_CountsGateRefusals ==
    [][ \A t \in Tasks :
          ToolStep(t) =>
              sessions'[run[t].key].blocked_count
                  = sessions[run[t].key].blocked_count
                    + (IF GateRefusedCall(t) THEN 1 ELSE 0) ]_vars

\* C5: when check_command reports blocked or dangerous, tool_run_command fails
\* and invokes neither the isolated backend nor a local subprocess.
C5_RefusedNeverExecutes ==
    (sec.op = "shell" /\ (sec.decision.blocked \/ sec.decision.dangerous))
        => (~sec.result.success /\ sec.calls = <<>>)

\* C5 witness: a dangerous command in a private chat, sandbox enabled.
C5_Witness ==
    /\ sec.op = "shell"
    /\ sec.decision.dangerous
    /\ sec.sandbox_enabled
    /\ ~sec.result.success

\* Configured record i matches the command (its pattern compiles and is found).
ConfiguredMatch(i, command) == RecordMatches(BLOCKED_PATTERNS[i], command)

\* C6: a command matching a configured record with admin_bypass = false is
\* blocked for every is_admin and every chat type.
C6_NoBypassAlwaysBlocked ==
    (sec.op = "check"
     /\ \E i \in 1..Len(BLOCKED_PATTERNS) :
            ConfiguredMatch(i, sec.command) /\ ~BLOCKED_PATTERNS[i].admin_bypass)
        => sec.decision.blocked

\* C6 witness: an admin in a private chat still blocked by such a record.
C6_Witness ==
    /\ sec.op = "check"
    /\ sec.is_admin
    /\ sec.chat_type = "private"
    /\ sec.decision.blocked
    /\ \E i \in 1..Len(BLOCKED_PATTERNS) :
          ConfiguredMatch(i, sec.command) /\ ~BLOCKED_PATTERNS[i].admin_bypass

\* C7 as stated: a command matching a configured record with admin_bypass =
\* true is not blocked for an admin, for every chat type and pattern list.
C7_AdminNeverBlocked ==
    (sec.op = "check" /\ sec.is_admin
     /\ \E i \in 1..Len(BLOCKED_PATTERNS) :
            ConfiguredMatch(i, sec.command) /\ BLOCKED_PATTERNS[i].admin_bypass)
        => ~sec.decision.blocked

\* C7 amended: such a command is not blocked for an admin provided no
\* configured record with admin_bypass = false matches it and, in a chat that
\* is not private, no built-in pattern matches it.
C7_AdminBypassSkipsRecord ==
    (sec.op = "check" /\ sec.is_admin
     /\ (\E i \in 1..Len(BLOCKED_PATTERNS) :
            ConfiguredMatch(i, sec.command) /\ BLOCKED_PATTERNS[i].admin_bypass)
     /\ ~(\E i \in 1..Len(BLOCKED_PATTERNS) :
            ConfiguredMatch(i, sec.command) /\ ~BLOCKED_PATTERNS[i].admin_bypass)
     /\ (sec.chat_type = "private"
         \/ ~\E k \in 1..Len(DANGEROUS_PATTERNS) : DangerousMatch(k, sec.command)))
        => ~sec.decision.blocked

\* C7 witness: an admin's command matches a bypass record and is not blocked.
C7_Witness ==
    /\ sec.op = "check"
    /\ sec.is_admin
    /\ ~sec.decision.blocked
    /\ \E i \in 1..Len(BLOCKED_PATTERNS) :
          ConfiguredMatch(i, sec.command) /\ BLOCKED_PATTERNS[i].admin_bypass

\* C8: a command matching no configured record but some built-in pattern is
\* blocked and not dangerous outside a private chat, dangerous and not blocked
\* in a private chat.
C8_BuiltinByChatType ==
    (sec.op = "check"
     /\ ~(\E i \in 1..Len(BLOCKED_PATTERNS) : ConfiguredMatch(i, sec.command))
     /\ \E k \in 1..Len(DANGEROUS_PATTERNS) : DangerousMatch(k, sec.command))
        => IF sec.chat_type # "private"
           THEN sec.decision.blocked /\ ~sec.decision.dangerous
           ELSE sec.decision.dangerous /\ ~sec.decision.blocked

\* C8 witness: a recursive delete checked in a private chat under a non-empty
\* configured list.
C8_Witness ==
    /\ sec.op = "check"
    /\ sec.chat_type = "private"
    /\ BLOCKED_PATTERNS # <<>>
    /\ MatchRmRf(sec.command)
    /\ sec.decision.dangerous

\* The configured records that are not skipped and match the command.
Hits ==
    {i \in 1..Len(BLOCKED_PATTERNS) :
        /\ ~(sec.is_admin /\ BLOCKED_PATTERNS[i].admin_bypass)
        /\ ConfiguredMatch(i, sec.command)}

\* C9: the decision is blocked with the reason of the first configured record,
\* in list order, that is not skipped and matches; the built-in set decides
\* only when there is no such record.
C9_FirstConfiguredWins ==
    sec.op = "check" =>
        IF Hits # {}
        THEN sec.decision =
                 Decision(FALSE, TRUE,
                          BLOCKED_PATTERNS[CHOOSE i \in Hits : \A j \in Hits : i <= j].reason)
        ELSE /\ (sec.decision.blocked \/ sec.decision.dangerous)
                    <=> \E k \in 1..Len(DANGEROUS_PATTERNS) : DangerousMatch(k, sec.command)
             /\ \A i \in 1..Len(BLOCKED_PATTERNS) :
                    sec.decision.reason # BLOCKED_PATTERNS[i].reason

\* C9 witness: two configured records with different reasons and a built-in
\* pattern all match; the first record's reason is returned.
C9_Witness ==
    /\ sec.op = "check"
    /\ Cardinality(Hits) = 2
    /\ BLOCKED_PATTERNS[1].reason # BLOCKED_PATTERNS[2].reason
    /\ MatchKill(sec.command)
    /\ sec.decision.reason = BLOCKED_PATTERNS[1].reason

\* C10: every tool message in a run's message list carries sanitized text.
C10_ToolMessagesSanitized ==
    \A t \in Tasks :
        run[t].pc # "idle" =>
            \A i \in 1..Len(run[t].messages) :
                run[t].messages[i].role = "tool" =>
                    run[t].messages[i].content
                        = sanitize_output(run[t].messages[i].content)

\* The file name ends in a private-key extension.
HasKeyExtension(name) ==
    \E ext \in {<<".","p","e","m">>, <<".","k","e","y">>} :
        /\ Len(name) > Len(ext)
        /\ SubSeq(LowerText(name), Len(name) - Len(ext) + 1, Len(name)) = ext

\* C11: is_sensitive_file is true for every path whose base name is in the
\* deny set, whose file name has a private-key extension (.pem, .key), or
\* which lies in a secret directory (.ssh, /run/secrets).
C11_SensitiveRecognized ==
    (sec.op = "sensitive"
     /\ \/ LowerText(basename(sec.path)) \in SENSITIVE_FILES
        \/ HasKeyExtension(basename(sec.path))
        \/ Contains(sec.path, <<".","s","s","h">>)
        \/ Contains(sec.path, <<"/","r","u","n","/","s","e","c","r","e","t","s">>))
        => sec.result

\* The backends that ran the command of the shell call on record: the isolated
\* backend when it reports the command routed through it, the local subprocess
\* whenever it is started.
BackendsRun ==
    SelectSeq(sec.calls, LAMBDA c : c = "local" \/ sec.env.sandbox.sandboxed)

\* C12: an approved command is run by exactly one backend, once: the isolated
\* backend is tried first when enabled and its routed result is returned with
\* no local subprocess; on unavailability, or with the backend disabled, the
\* command runs as a local subprocess.
C12_OneBackendOnce ==
    (sec.op = "shell" /\ sec.command # <<>>
     /\ ~sec.decision.blocked /\ ~sec.decision.dangerous)
        => /\ Len(BackendsRun) = 1
           /\ IF sec.sandbox_enabled /\ sec.env.sandbox.sandboxed
              THEN /\ sec.calls = <<"sandbox">>
                   /\ sec.result = SandboxedResult(sec.env.sandbox)
              ELSE IF sec.sandbox_enabled
              THEN /\ sec.calls = <<"sandbox", "local">>
                   /\ sec.result = LocalResult(sec.env.local)
              ELSE /\ sec.calls = <<"local">>
                   /\ sec.result = LocalResult(sec.env.local)

\* C12 witness: the isolated backend is enabled and reports unavailability;
\* the command then runs locally and succeeds.
C12_Witness ==
    /\ sec.op = "shell"
    /\ sec.sandbox_enabled
    /\ ~sec.env.sandbox.sandboxed
    /\ sec.calls = <<"sandbox", "local">>
    /\ sec.result.success

\* This step is task t's handling of a reply of the model gateway.
GatewayStep(t) == run[t].pc = "await_llm" /\ run'[t] # run[t]

\* C13: when call_llm returns an error the run returns "Error: ..." in that
\* very step, with no further gateway call (no retry) and no tool dispatch,
\* and leaves the session as it was; a returned run does nothing more.
C13_GatewayErrorAborts ==
    [][ \A t \in Tasks :
          /\ (GatewayStep(t) /\ "error" \in DOMAIN run'[t].last.result)
             => /\ run'[t].pc = "done"
                /\ run'[t].response = <<"Error:">> \o run'[t].last.result.error
                /\ run'[t].llm_calls = run[t].llm_calls
                /\ run'[t].dispatched = run[t].dispatched
                /\ sessions' = sessions
          /\ run[t].pc = "done" => (run'[t] = run[t] \/ run'[t] = Idle) ]_vars

\* C13 witness: the gateway fails on the second call of a run, after tools ran.
C13_Witness ==
    \E t \in Tasks :
        /\ run[t].pc = "done"
        /\ run[t].last.kind = "llm"
        /\ "error" \in DOMAIN run[t].last.result
        /\ run[t].llm_calls = 2
        /\ run[t].dispatched > 0
        /\ run[t].response[1] = "Error:"

\* C14: a run makes at most max_iterations gateway calls; the step that
\* handles the last tool result of the last allowed turn ends the run, and
\* when it is neither a lockout nor an exception the run returns the fallback
\* content, which is not empty and not an error, and saves the exchange.
C14_IterationBudget ==
    [][ \A t \in Tasks :
          /\ run'[t].pc # "idle" => /\ run'[t].llm_calls <= max_iterations
                                    /\ run'[t].iteration = run'[t].llm_calls
          /\ (ToolStep(t) /\ run[t].iteration = max_iterations
              /\ run[t].tc = Len(run[t].tool_calls))
             => /\ run'[t].pc \in {"done", "raised"}
                /\ (run'[t].pc = "done" /\ run'[t].response # LOCKOUT)
                   => /\ run'[t].response
                            = Returned(Fallback(<<>>, run[t].iteration, run'[t].messages))
                      /\ run'[t].response # <<>>
                      /\ run'[t].response[1] # "Error:"
                      /\ sessions'[run[t].key].history # <<>> ]_vars

\* C14 witness: a run whose every turn called tools returned a fallback
\* acknowledgement after max_iterations gateway calls.
C14_Witness ==
    \E t \in Tasks :
        /\ run[t].pc = "done"
        /\ run[t].last.kind = "tool"
        /\ run[t].llm_calls = max_iterations
        /\ run[t].tc = Len(run[t].tool_calls)
        /\ run[t].response \notin {LOCKOUT, NO_RESPONSE}

\* C15: no exception leaves run_agent.
C15_NoExceptionEscapes == \A t \in Tasks : run[t].pc # "raised"

\* The messages from position base on are the assistant message of the turn
\* followed by the tool messages of its first n calls, in the model's order,
\* each with its call's id.
TurnLaidOut(r, base, n) ==
    /\ base >= 1
    /\ base + n = Len(r.messages)
    /\ Get(r.messages[base], "role", "") = "assistant"
    /\ Get(r.messages[base], "tool_calls", <<>>) = r.tool_calls
    /\ \A j \in 1..n :
          /\ r.messages[base + j].role = "tool"
          /\ r.messages[base + j].tool_call_id = r.tool_calls[j].id

\* C16: while call k of a turn is awaited the running list ends with the
\* turn's assistant message and the tool messages of calls 1..k-1 in order,
\* and the next gateway call is awaited only when the tool messages of all
\* the calls of the turn have been appended in order.
C16_SequentialInOrder ==
    \A t \in Tasks :
        /\ run[t].pc = "await_tool"
           => /\ run[t].tc \in 1..Len(run[t].tool_calls)
              /\ TurnLaidOut(run[t], Len(run[t].messages) - (run[t].tc - 1),
                             run[t].tc - 1)
        /\ (run[t].pc = "await_llm" /\ run[t].iteration > 1)
           => TurnLaidOut(run[t], Len(run[t].messages) - Len(run[t].tool_calls),
                          Len(run[t].tool_calls))

\* C16 witness: the second gateway call of a run is awaited after a turn of
\* two tool calls with different ids.
C16_Witness ==
    \E t \in Tasks :
        /\ run[t].pc = "await_llm"
        /\ run[t].iteration = 2
        /\ Len(run[t].tool_calls) = 2
        /\ run[t].tool_calls[1].id # run[t].tool_calls[2].id
        /\ run[t].dispatched = 2

\* C17: the arguments handed to the tool registry are a key-value object: the
\* object parsed from the call's arguments text, or the empty object.
C17_ArgsAlwaysObject ==
    \A t \in Tasks :
        run[t].pc = "await_tool" => IsObject(run[t].call.args)

\* C20: a run in which a tool call succeeded returns neither the empty string
\* nor the "(no response)" placeholder.
C20_WorkNeverSilent ==
    \A t \in Tasks :
        (run[t].pc = "done" /\ run[t].succeeded > 0)
            => (run[t].response # <<>> /\ run[t].response # NO_RESPONSE)

\* The turn on record had no structured tool calls and carried reasoning.
RecoveryApplies ==
    /\ sec.op = "recover"
    /\ ~Truthy(Get(sec.msg, "tool_calls", <<>>))
    /\ ReasoningPresent(ReasoningOf(sec.msg))

\* The first brace-delimited chunk of the reasoning on record parses.
FirstObjectParses ==
    /\ RecoveryApplies
    /\ ReasoningOf(sec.msg).objects # <<>>
    /\ ReasoningOf(sec.msg).objects[1].json = "object"

\* The tool the stated key precedence gives for a parsed object.
ToolByPrecedence(obj) ==
    CASE "cursor" \in DOMAIN obj \/ "id" \in DOMAIN obj -> "fetch_page"
      [] OTHER -> IF "command" \in DOMAIN obj THEN "run_command"
                  ELSE IF "query" \in DOMAIN obj THEN "search_web"
                  ELSE IF "url" \in DOMAIN obj THEN "fetch_page"
                  ELSE IF "path" \in DOMAIN obj THEN "read_file"
                  ELSE "none"

\* C18 as stated: for a parsed first object with a known key exactly one call
\* is synthesized, its tool by the key precedence, its id reasoning_<iteration>
\* and its arguments the parsed object.
C18_ScrapeArgsAreParsedObject ==
    (FirstObjectParses
     /\ ToolByPrecedence(ReasoningOf(sec.msg).objects[1].value) # "none")
        => /\ Len(sec.out.tool_calls) = 1
           /\ sec.out.tool_calls[1].id = "reasoning_" \o ToString(sec.iteration)
           /\ sec.out.tool_calls[1].function.name
                  = ToolByPrecedence(ReasoningOf(sec.msg).objects[1].value)
           /\ ParseArgs(sec.out.tool_calls[1].function.arguments)
                  = ReasoningOf(sec.msg).objects[1].value

\* C18 amended: the arguments are the parsed object except under cursor/id,
\* where they are {"result_id": cursor or id}; an object with none of the
\* known keys yields no call from the scrape.
C18_ScrapeByPrecedence ==
    FirstObjectParses
        => LET obj == ReasoningOf(sec.msg).objects[1].value
           IN  IF ToolByPrecedence(obj) # "none"
               THEN /\ Len(sec.out.tool_calls) = 1
                    /\ sec.out.tool_calls[1].id = "reasoning_" \o ToString(sec.iteration)
                    /\ sec.out.tool_calls[1].type = "function"
                    /\ sec.out.tool_calls[1].function.name = ToolByPrecedence(obj)
                    /\ ParseArgs(sec.out.tool_calls[1].function.arguments)
                           = IF "cursor" \in DOMAIN obj \/ "id" \in DOMAIN obj
                             THEN [result_id |-> PyOr(Get(obj, "cursor", <<>>),
                                                      Get(obj, "id", <<>>))]
                             ELSE obj
                    /\ Get(sec.out.msg, "tool_calls", <<>>) = sec.out.tool_calls
               ELSE Truthy(sec.out.tool_calls)
                        => \A i \in 1..Len(sec.out.tool_calls) :
                               sec.out.tool_calls[i].id
                                   # "reasoning_" \o ToString(sec.iteration)

\* C18 witness: an object with query, url and path in the second iteration
\* becomes a search_web call.
C18_Witness ==
    /\ FirstObjectParses
    /\ sec.iteration = 2
    /\ DOMAIN ReasoningOf(sec.msg).objects[1].value = {"query", "url", "path"}
    /\ Truthy(sec.out.tool_calls)
    /\ sec.out.tool_calls[1].function.name = "search_web"
    /\ sec.out.tool_calls[1].id = "reasoning_2"

\* C19 as stated: whenever the scrape yields no call the intent list is
\* scanned, so a call the scan can build is made; the reasoning replaces the
\* content only when neither strategy produced a call.
C19_IntentAlwaysScanned ==
    RecoveryApplies
        => LET reasoning == ReasoningOf(sec.msg)
               scraped   == JsonScrape(reasoning, sec.iteration)
               intent    == IntentScan(reasoning, sec.iteration)
           IN  /\ scraped # <<>> => sec.out.tool_calls = scraped
               /\ (scraped = <<>> /\ intent # <<>>) => sec.out.tool_calls = intent
               /\ sec.out.content # Get(sec.msg, "content", <<>>)
                     => /\ ~Truthy(sec.out.tool_calls)
                        /\ sec.out.content = ReasoningAsContent(reasoning)

\* C19 amended: the scrape is tried whenever tool_calls is empty and reasoning
\* is present; the intent list is scanned only when the scrape yielded no call
\* and the content of the turn is empty; the reasoning becomes the content only
\* when that scan yielded no call; a turn with content and no scraped call, or
\* one outside the recovery, is left as it came.
C19_RecoveryOrder ==
    sec.op = "recover"
        => LET reasoning == ReasoningOf(sec.msg)
               scraped   == JsonScrape(reasoning, sec.iteration)
               intent    == IntentScan(reasoning, sec.iteration)
               content   == Get(sec.msg, "content", <<>>)
               unchanged == /\ sec.out.tool_calls = Get(sec.msg, "tool_calls", <<>>)
                            /\ sec.out.content = content
                            /\ sec.out.msg = sec.msg
           IN  IF ~RecoveryApplies THEN unchanged
               ELSE IF scraped # <<>>
               THEN sec.out.tool_calls = scraped /\ sec.out.content = content
               ELSE IF content # <<>> THEN unchanged
               ELSE IF intent # <<>>
               THEN sec.out.tool_calls = intent /\ sec.out.content = content
               ELSE /\ ~Truthy(sec.out.tool_calls)
                    /\ sec.out.content = ReasoningAsContent(reasoning)
                    /\ sec.out.msg.content = ReasoningAsContent(reasoning)

\* C19 witness: the first chunk is not JSON, the content is empty and an
\* intent phrase in the reasoning gives a list_directory call.
C19_Witness ==
    /\ RecoveryApplies
    /\ Get(sec.msg, "content", <<>>) = <<>>
    /\ ReasoningOf(sec.msg).objects # <<>>
    /\ ReasoningOf(sec.msg).objects[1].json = "invalid"
    /\ Truthy(sec.out.tool_calls)
    /\ sec.out.tool_calls[1].id = "intent_" \o ToString(sec.iteration)
    /\ sec.out.tool_calls[1].function.name = "list_directory"

(***************************************************************************)
(* The saved exchange.                                                     *)
(***************************************************************************)
\* The step in which run t leaves its loop and reaches "Save to history".
LoopEndStep(t) == Active(t) /\ run'[t].pc = "done" /\ run'[t].saved

UserEntry(t) == [role |-> "user", content |-> run[t].message]

AssistantEntry(content) == [role |-> "assistant", content |-> content]

\* C21 as the specification states it: every run that completes, neither by
\* a gateway error nor by a lockout, appends the user message and then the
\* final response to the history, which is then re-trimmed.
C21_TwoEntriesAppended ==
    [][ \A t \in Tasks :
          (/\ Active(t) /\ run'[t].pc = "done"
           /\ ~ (run'[t].last.kind = "llm" /\ "error" \in DOMAIN run'[t].last.result)
           /\ run'[t].response # LOCKOUT)
          => \E content \in {run'[t].final_response, run'[t].response} :
                sessions'[run[t].key].history
                    = trim_history(sessions[run[t].key].history
                                   \o <<UserEntry(t), AssistantEntry(content)>>,
                                   max_history * 2, HistoryChars) ]_vars

\* C21: a run that leaves its loop (a reply without tool calls, or the
\* iteration budget used up) appends the user message and, only when the
\* final response is not empty, the final response after it, and re-trims
\* the history; on an empty history a non-empty final response leaves exactly
\* these 2 entries; a run that ends any other way leaves the history alone.
C21_ExchangeSaved ==
    [][ \A t \in Tasks :
          LET H     == sessions[run[t].key].history
              H2    == sessions'[run[t].key].history
              final == run'[t].final_response
          IN  /\ LoopEndStep(t)
                 => /\ H2 = trim_history(
                               Append(H, UserEntry(t))
                               \o (IF final # <<>> THEN <<AssistantEntry(final)>>
                                   ELSE <<>>),
                               max_history * 2, HistoryChars)
                    /\ (H = <<>> /\ final # <<>>)
                       => H2 = <<UserEntry(t), AssistantEntry(final)>>
                    /\ final = <<>> => H2[Len(H2)] = UserEntry(t)
              /\ (Active(t) /\ run'[t].pc \in {"done", "raised"} /\ ~ run'[t].saved)
                 => H2 = H ]_vars

\* C21 witness: on an empty history the first reply had no tool calls and the
\* run left exactly the user message and the answer.
C21_Witness ==
    \E t \in Tasks :
        /\ run[t].pc = "done" /\ run[t].saved
        /\ run[t].llm_calls = 1
        /\ started = 1
        /\ sessions[run[t].key].history
               = <<[role |-> "user", content |-> run[t].message],
                   AssistantEntry(<<"4">>)>>

\* C22: whenever a run appends an assistant entry to the history, the content
\* of that entry is the response string the run returns.
C22_PersistedEqualsReturned ==
    [][ \A t \in Tasks :
          LET H2 == sessions'[run[t].key].history
          IN  (LoopEndStep(t) /\ H2[Len(H2)].role = "assistant")
              => H2[Len(H2)].content = run'[t].response ]_vars

(***************************************************************************)
(* Long tool output.                                                       *)
(***************************************************************************)
\* The text a tool call produced before any length cap: the redacted output
\* of the backend that ran the command, or the page fetched; empty when the
\* tool ran nothing.
ProducedText(step, ctx) ==
    IF step.name = "run_command"
    THEN LET calls == tool_run_command(step.args, ctx, step.env).calls
         IN  IF calls = <<>> THEN <<>>
             ELSE IF calls[Len(calls)] = "sandbox"
             THEN sanitize_output(step.env.sandbox.output)
             ELSE IF step.env.local.kind = "exit"
             THEN sanitize_output(step.env.local.output)
             ELSE <<>>
    ELSE IF step.name = "fetch_page" /\ step.result.success
    THEN step.env.page.content
    ELSE <<>>

\* content is ... head, one marker, tail, and holds no other marker.
HeadMarkerTail(content, head, tail) ==
    \E i \in 1..Len(content) :
        /\ content[i] = TRIMMED
        /\ \A j \in 1..Len(content) : content[j] = TRIMMED => j = i
        /\ i > Len(head)
        /\ SubSeq(content, i - Len(head), i - 1) = head
        /\ SubSeq(content, i + 1, Len(content)) = tail

\* C23: when a tool produced more than max_tool_output of text, the tool
\* message appended to the running message list holds the first 60% and the
\* last 30% of the budget of that text with exactly one trimmed-marker between
\* them, whether the cut was made by the shell tool or by the loop.
C23_LongOutputTrimmedOnce ==
    [][ \A t \in Tasks :
          (/\ ToolStep(t)
           /\ run'[t].last.kind = "tool"
           /\ run'[t].messages # run[t].messages
           /\ Len(ProducedText(run'[t].last, run[t].tool_ctx)) > max_tool_output)
          => LET original == ProducedText(run'[t].last, run[t].tool_ctx)
                 m        == run'[t].messages[Len(run'[t].messages)]
             IN  /\ m.role = "tool"
                 /\ Len(run'[t].messages) = Len(run[t].messages) + 1
                 /\ HeadMarkerTail(m.content,
                                   PyHead(original, (max_tool_output * 6) \div 10),
                                   PyTail(original, (max_tool_output * 3) \div 10)) ]_vars

\* C23 witness: a failing command whose long output the shell tool capped has
\* its tool message, "Error: Exit 1: ..." with one marker, in the list.
C23_Witness ==
    \E t \in Tasks :
        /\ run[t].pc = "await_llm"
        /\ run[t].last.kind = "tool"
        /\ run[t].last.name = "run_command"
        /\ ~ run[t].last.result.success
        /\ Len(ProducedText(run[t].last, run[t].tool_ctx)) > max_tool_output
        /\ LET m == run[t].messages[Len(run[t].messages)]
           IN  /\ m.role = "tool"
               /\ m.content[1] = "Error:"
               /\ Cardinality({i \in 1..Len(m.content) : m.content[i] = TRIMMED}) = 1

(***************************************************************************)
(* trim_history on its own.                                                *)
(***************************************************************************)
\* History entries of serialized size 1, 3 and 6.
HistoryEntries ==
    { [role |-> "user", content |-> <<>>],
      [role |-> "assistant", content |-> <<"o", "k">>],
      [role |-> "user", content |-> <<"l", "o", "n", "g", "!">>] }

Histories == SeqsUpTo(HistoryEntries, MaxHistoryLen)

\* trim_history(history, max_msgs, max_chars) is called.
TrimCall ==
    /\ sec = NoCall
    /\ \E history \in Histories, max_msgs \in 0..MaxMsgsBudget,
          max_chars \in 0..MaxCharsBudget :
          sec' = [op |-> "trim", first |-> history,
                  history |-> history, max_msgs |-> max_msgs,
                  max_chars |-> max_chars, calls |-> 1,
                  out |-> trim_history(history, max_msgs, max_chars)]
    /\ UNCHANGED <<userbot, mcp, BLOCKED_PATTERNS, SANDBOX_ENABLED, sessions, run, started>>

\* trim_history is called on its own result with the same budgets, as
\* run_agent does from one run to the next.
TrimAgain ==
    /\ sec # NoCall
    /\ sec.calls = 1
    /\ sec' = [sec EXCEPT !.calls = 2,
                          !.out = trim_history(sec.out, sec.max_msgs, sec.max_chars),
                          !.history = sec.out]
    /\ UNCHANGED <<userbot, mcp, BLOCKED_PATTERNS, SANDBOX_ENABLED, sessions, run, started>>

\* The caller takes the trimmed history.
TrimReturns ==
    /\ sec # NoCall
    /\ sec' = NoCall
    /\ UNCHANGED <<userbot, mcp, BLOCKED_PATTERNS, SANDBOX_ENABLED, sessions, run, started>>

NextTrim == TrimCall \/ TrimAgain \/ TrimReturns

SpecTrim == InitAgent /\ [][NextTrim]_vars

Trimmed == sec # NoCall /\ sec.op = "trim"

\* C24 as the specification states it: a history over max_chars is trimmed to
\* at most max_chars or to exactly 2 entries, for every max_messages.
C24_WithinBudgetOrExactlyTwo ==
    (Trimmed /\ TotalSize(sec.history) > sec.max_chars)
    => (TotalSize(sec.out) <= sec.max_chars \/ Len(sec.out) = 2)

\* C24: a history over max_chars is trimmed to at most max_chars or to at
\* most 2 entries: exactly 2 when it had at least 2 entries and max_messages
\* is not 1, and exactly 1 otherwise.
C24_WithinBudgetOrAtMostTwo ==
    (Trimmed /\ TotalSize(sec.history) > sec.max_chars)
    => \/ TotalSize(sec.out) <= sec.max_chars
       \/ Len(sec.out) = (IF Len(sec.history) >= 2 /\ sec.max_msgs # 1 THEN 2 ELSE 1)

\* C24 witness: entries were dropped down to the budget with more than 2 left.
C24_Witness ==
    /\ Trimmed /\ sec.calls = 1
    /\ TotalSize(sec.history) > sec.max_chars
    /\ Len(sec.out) > 2 /\ Len(sec.out) < Len(sec.history)
    /\ Len(sec.history) <= sec.max_msgs
    /\ TotalSize(sec.out) <= sec.max_chars

\* C25 as the specification states it: of a history of at least 2 entries at
\* least 2 are returned, for every max_messages and max_chars.
C25_NeverBelowTwo ==
    (Trimmed /\ Len(sec.history) >= 2) => Len(sec.out) >= 2

\* C25: of a history of at least 2 entries at least 2 are returned, for every
\* max_chars and every max_messages other than 1; with max_messages = 1
\* exactly the most recent entry is returned.
C25_NeverBelowTwoUnlessOne ==
    (Trimmed /\ Len(sec.history) >= 2)
    => IF sec.max_msgs = 1
       THEN sec.out = <<sec.history[Len(sec.history)]>>
       ELSE Len(sec.out) >= 2

\* C25 witness: the loop stopped at 2 entries that are still over max_chars.
C25_Witness ==
    /\ Trimmed /\ sec.calls = 1
    /\ Len(sec.history) > 2
    /\ sec.max_msgs > 2
    /\ Len(sec.out) = 2
    /\ TotalSize(sec.out) > sec.max_chars

\* C26: trimming the result of trim_history again with the same budgets
\* changes nothing.
C26_TrimIdempotent ==
    (Trimmed /\ sec.calls = 2) => sec.out = sec.history

\* C26 witness: the first call cut a history by the message budget and then
\* dropped entries down to 2 still over max_chars; the second call returned
\* its input.
C26_Witness ==
    /\ Trimmed /\ sec.calls = 2
    /\ Len(sec.first) > sec.max_msgs
    /\ sec.max_msgs > 2
    /\ Len(sec.history) = 2
    /\ TotalSize(sec.history) > sec.max_chars
    /\ sec.out = sec.history

(***************************************************************************)
(* The context of the first model call.                                    *)
(***************************************************************************)
\* The step in which run t is entered and reaches its first call_llm.
RunStartStep(t) == run[t].pc = "idle" /\ run'[t].pc = "await_llm"

\* The history stored under key, empty when there is no such session.
StoredHistory(key) == IF key \in DOMAIN sessions THEN sessions[key].history ELSE <<>>

IsSuffix(part, whole) ==
    /\ Len(part) <= Len(whole)
    /\ part = SubSeq(whole, Len(whole) - Len(part) + 1, Len(whole))

\* C27: the message list of the first model call of a run starts with the
\* system message and ends with the new user message; what lies between them
\* is the stored history without some of its oldest entries.
C27_ContextKeepsEnds ==
    [][ \A t \in Tasks :
          RunStartStep(t)
          => LET messages == run'[t].messages
                 n        == Len(messages)
             IN  /\ n >= 2
                 /\ messages[1] = SystemMessage(sessions'[run'[t].key], "bot")
                 /\ messages[1].role = "system"
                 /\ messages[n] = [role |-> "user", content |-> run'[t].message]
                 /\ IsSuffix(SubSeq(messages, 2, n - 1), StoredHistory(run'[t].key))
                 /\ run'[t].llm_calls = 1 ]_vars

\* C27 witness: a run waits for its first model reply with a context from
\* which trimming dropped stored history entries.
C27_Witness ==
    \E t \in Tasks :
        /\ run[t].pc = "await_llm"
        /\ run[t].llm_calls = 1
        /\ Len(run[t].messages) < Len(sessions[run[t].key].history) + 2
        /\ run[t].messages[1].role = "system"
        /\ run[t].messages[Len(run[t].messages)].role = "user"

(***************************************************************************)
(* Clearing a session.                                                     *)
(***************************************************************************)
\* One run_agent at a time over the chats of a user, with clear requests at
\* any moment.
SpecSessions == InitAgent /\ [][NextAgent({"t1"}, SessionChats, ShortLLMResults, UserMessages, MaxRuns)]_vars

\* A step of the clear endpoint that changed something: no run moves and the
\* session map differs.
ClearStep == run' = run /\ sessions' # sessions

\* C28: a clear resets the history and the blocked_count of one session and
\* nothing else: its other fields (cwd among them) and every other session,
\* the other chats of the same user included, stay as they were, no session
\* is created or removed, and no step that leaves the runs alone (a clear of
\* a pair without a session among them) adds a session.
C28_ClearFrame ==
    [][ /\ ClearStep
           => \E key \in DOMAIN sessions :
                 sessions' = [sessions EXCEPT ![key].history = <<>>,
                                              ![key].blocked_count = 0]
        /\ run' = run => DOMAIN sessions' = DOMAIN sessions ]_vars

\* C28 witness: two chats of a user ran; the session of one was cleared after
\* its run and is empty with its cwd, while the other keeps its history.
C28_Witness ==
    /\ started = 2
    /\ \A t \in Tasks : run[t].pc = "idle"
    /\ \E k1, k2 \in DOMAIN sessions :
          /\ k1 # k2
          /\ sessions[k1].history = <<>> /\ sessions[k1].blocked_count = 0
          /\ sessions[k1].cwd = <<"/workspace", sessions[k1].user_id>>
          /\ sessions[k2].history # <<>>

(***************************************************************************)
(* Runs and workspaces.                                                    *)
(***************************************************************************)
\* C29: no two runs in progress at the same time have the same working
\* directory in their tool context.
C29_NoSharedWorkspace ==
    \A t1, t2 \in Tasks :
        (t1 # t2 /\ Active(t1) /\ Active(t2))
        => run[t1].tool_ctx.cwd # run[t2].tool_ctx.cwd

(***************************************************************************)
(* The MCP server routes of tools-api.                                     *)
(***************************************************************************)
McpNames == {"alpha", "beta"}

McpUrls == {"http://mcp:3001"}

\* api_key of MCPServerCreate: absent, or one of two secrets.
McpKeys == {None, "do-not-expose-this", "other-secret"}

\* POST /mcp/servers: add_mcp_server(data); fetched is the number of tools
\* fetch_mcp_tools got from the new server.
add_mcp_server(name, url, api_key, fetched) ==
    /\ ~ mcp.listed
    /\ name \notin ServerNames(mcp.servers)
    /\ mcp' = [mcp EXCEPT
                 !.servers = Append(@, MCPServer(name, url, api_key)),
                 !.tools   = IF fetched > 0 THEN SetKey(@, name, fetched) ELSE @,
                 !.status  = IF fetched > 0
                             THEN SetKey(@, name, [connected |-> TRUE,
                                                   tool_count |-> fetched])
                             ELSE @]
    /\ UNCHANGED <<userbot, BLOCKED_PATTERNS, SANDBOX_ENABLED, sec, sessions, run, started>>

\* DELETE /mcp/servers/{name}: remove_mcp_server(name)
remove_mcp_server(name) ==
    /\ ~ mcp.listed
    /\ name \in ServerNames(mcp.servers)
    /\ mcp' = [mcp EXCEPT !.servers = WithoutServer(@, name),
                          !.tools   = DelKey(@, name),
                          !.status  = DelKey(@, name)]
    /\ UNCHANGED <<userbot, BLOCKED_PATTERNS, SANDBOX_ENABLED, sec, sessions, run, started>>

\* GET /mcp/servers: list_mcp_servers()
list_mcp_servers ==
    /\ ~ mcp.listed
    /\ mcp' = [mcp EXCEPT !.listed = TRUE,
                          !.response = Listing(mcp.servers, mcp.tools, mcp.status)]
    /\ UNCHANGED <<userbot, BLOCKED_PATTERNS, SANDBOX_ENABLED, sec, sessions, run, started>>

\* The client takes the listing.
ListingReturns ==
    /\ mcp.listed
    /\ mcp' = [mcp EXCEPT !.listed = FALSE, !.response = <<>>]
    /\ UNCHANGED <<userbot, BLOCKED_PATTERNS, SANDBOX_ENABLED, sec, sessions, run, started>>

NextMcp ==
    \/ \E name \in McpNames, url \in McpUrls, api_key \in McpKeys, fetched \in {0, 1} :
          add_mcp_server(name, url, api_key, fetched)
    \/ \E name \in McpNames : remove_mcp_server(name)
    \/ list_mcp_servers
    \/ ListingReturns

SpecMcp == InitAgent /\ [][NextMcp]_vars

\* The config with every configured api_key replaced by key.
RECURSIVE WithKeys(_, _)
WithKeys(servers, key) ==
    IF servers = <<>> THEN <<>>
    ELSE <<[Head(servers) EXCEPT !.api_key = IF @ = None THEN None ELSE key]>>
         \o WithKeys(Tail(servers), key)

\* C30: the listing of GET /mcp/servers holds the raw api_key of no
\* configured server: a server that has a key is listed with api_key_set = TRUE
\* and without the key, and a config with other api_key values gives the same
\* listing.
C30_ListingHidesKeys ==
    mcp.listed
    => /\ \A i \in 1..Len(mcp.response) :
             mcp.servers[i].api_key # None
             => /\ Get(mcp.response[i], "api_key", None) = None
                /\ "api_key_set" \in DOMAIN mcp.response[i]
                /\ mcp.response[i].api_key_set = TRUE
       /\ mcp.response = Listing(WithKeys(mcp.servers, "rotated"), mcp.tools, mcp.status)

(***************************************************************************)
(* Runs that end inside the loop; the blocked count; the tool context.     *)
(***************************************************************************)
\* A step taken by run t itself.
RunStep(t) == Active(t) /\ run'[t] # run[t]

\* The step in which run t returns on a gateway error, on a reply without
\* choices or on a lockout.
AbortStep(t) ==
    /\ RunStep(t)
    /\ run'[t].pc = "done"
    /\ \/ run'[t].response = LOCKOUT
       \/ /\ run[t].pc = "await_llm"
          /\ \/ "error" \in DOMAIN run'[t].last.result
             \/ Get(run'[t].last.result, "choices", <<>>) = <<>>

\* C37: the step that ends a run by gateway error, by an empty choice list or
\* by lockout changes nothing of the session map but the blocked_count of the
\* run's session, and no step of a run before the save at the end of its loop
\* (its entry included) changes the history of its session.
C37_AbortKeepsHistory ==
    [][ \A t \in Tasks :
          /\ AbortStep(t)
             => /\ ~ run'[t].saved
                /\ sessions'[run[t].key].history = sessions[run[t].key].history
                /\ sessions' = [sessions EXCEPT ![run[t].key].blocked_count =
                                                    sessions'[run[t].key].blocked_count]
          /\ (RunStep(t) /\ ~ LoopEndStep(t))
             => sessions'[run[t].key].history = sessions[run[t].key].history
          /\ RunStartStep(t)
             => sessions'[run'[t].key].history = StoredHistory(run'[t].key) ]_vars

\* C37 witness: a run on a session with a saved exchange was locked out and
\* the exchange is still the whole history.
C37_Witness ==
    \E t \in Tasks :
        /\ run[t].pc = "done"
        /\ run[t].response = LOCKOUT
        /\ started = 2
        /\ Len(sessions[run[t].key].history) = 2
        /\ sessions[run[t].key].blocked_count >= max_blocked_commands

\* C39: no step of run_agent lowers the blocked_count of a session; a run
\* starts with the count the session had; a count goes down only by a clear,
\* and then to 0; a run returns the lockout with the count at the threshold.
C39_CountPersists ==
    [][ /\ \A key \in DOMAIN sessions :
             /\ key \in DOMAIN sessions'
             /\ sessions'[key].blocked_count < sessions[key].blocked_count
                => (run' = run /\ sessions'[key].blocked_count = 0)
        /\ \A t \in Tasks :
             /\ RunStartStep(t)
                => sessions'[run'[t].key].blocked_count
                       = (IF run'[t].key \in DOMAIN sessions
                          THEN sessions[run'[t].key].blocked_count ELSE 0)
             /\ (RunStep(t) /\ run'[t].pc = "done" /\ run'[t].response = LOCKOUT)
                => sessions'[run[t].key].blocked_count >= max_blocked_commands ]_vars

\* C39 witness: after a lockout a later run of the session waits for its first
\* model reply with the count at the threshold.
C39_Witness ==
    \E t \in Tasks :
        /\ run[t].pc = "await_llm"
        /\ run[t].llm_calls = 1
        /\ started = 2
        /\ sessions[run[t].key].blocked_count >= max_blocked_commands

\* The command matches a configured pattern that admins may bypass.
MatchesBypassPattern(command) ==
    \E i \in 1..Len(BLOCKED_PATTERNS) :
        BLOCKED_PATTERNS[i].admin_bypass /\ RecordMatches(BLOCKED_PATTERNS[i], command)

HistoryMessages == {<<>>, <<"a", "-", "l", "o", "n", "g", "-", "o", "n", "e">>}

\* An answer, an empty content, and a turn that calls a tool.
HistoryLLMResults ==
    { AssistantTurn(<<"4">>, <<>>, "stop"),
      AssistantTurn(<<>>, <<>>, "stop"),
      AssistantTurn(<<>>, <<CallLs>>, "tool_calls") }

\* One run_agent at a time on one session, many runs, clears at any moment.
SpecHistory ==
    InitAgent /\ [][NextAgent({"t1"}, {1}, HistoryLLMResults, HistoryMessages,
                              MaxHistoryRuns)]_vars

\* C38 as the specification states it: a persisted history has at most
\* 2 * max_history entries, and is within the character budget unless it has
\* exactly 2 entries.
C38_HistoryBoundedOrTwo ==
    \A key \in DOMAIN sessions :
        LET history == sessions[key].history
        IN  /\ Len(history) <= 2 * max_history
            /\ (TotalSize(history) <= HistoryChars \/ Len(history) = 2)

\* C38: a persisted history has at most 2 * max_history entries, and is
\* within the character budget unless it has at most 2 entries.
C38_HistoryBounded ==
    \A key \in DOMAIN sessions :
        LET history == sessions[key].history
        IN  /\ Len(history) <= 2 * max_history
            /\ (TotalSize(history) <= HistoryChars \/ Len(history) <= 2)

\* C38 witness: runs were saved beyond 2 * max_history entries and the
\* history holds exactly that many, the latest exchange last.
C38_Witness ==
    /\ started > 2 * max_history
    /\ \A t \in Tasks : run[t].pc = "idle"
    /\ \E key \in DOMAIN sessions :
          /\ Len(sessions[key].history) = 2 * max_history
          /\ sessions[key].history[2 * max_history] = AssistantEntry(<<"4">>)

(***************************************************************************)
(* api.py: the chat endpoint.                                              *)
(***************************************************************************)
\* access.get("admin_id", 809532582)
DEFAULT_ADMIN_ID == 809532582

\* The "access" section load_admin_config may return, with admin 1 and user 2
\* listed: every combination of the two service flags under an open and an
\* unknown mode, the two remaining modes with both services on, a section
\* with mode and flags missing, and one with admin_id missing.
AccessConfigs ==
    { [bot_enabled |-> b, userbot_enabled |-> u, mode |-> m,
       admin_id |-> 1, allowlist |-> <<2>>] :
         b \in BOOLEAN, u \in BOOLEAN, m \in {"public", "off"} }
    \cup { [bot_enabled |-> TRUE, userbot_enabled |-> TRUE, mode |-> m,
            admin_id |-> 1, allowlist |-> <<2>>] : m \in {"admin_only", "allowlist"} }
    \cup { [admin_id |-> 1, allowlist |-> <<2>>], [mode |-> "allowlist"] }

ChatUsers == {1, 2, 3}

\* req.source; the empty string stands for a missing source.
ChatSources == {"bot", "userbot", "api", ""}

\* `user_id in allowlist`
InList(user_id, allowlist) == \E i \in 1..Len(allowlist) : allowlist[i] = user_id

\* Variant: a mode value that is none of the three grants access.
has_access_otherModeOpen(access, user_id) ==
    LET mode      == Get(access, "mode", "admin_only")
        admin_id  == Get(access, "admin_id", DEFAULT_ADMIN_ID)
        allowlist == Get(access, "allowlist", <<>>)
    IN  IF mode = "admin_only" THEN user_id = admin_id
        ELSE IF mode = "allowlist"
        THEN user_id = admin_id \/ InList(user_id, allowlist)
        ELSE TRUE

\* "Check access mode" of chat: the value of has_access before `if not has_access`.
has_access(access, user_id) ==
    LET mode      == Get(access, "mode", "admin_only")
        admin_id  == Get(access, "admin_id", DEFAULT_ADMIN_ID)
        allowlist == Get(access, "allowlist", <<>>)
    IN  IF mode = "public" THEN TRUE
        ELSE IF mode = "admin_only" THEN user_id = admin_id
        ELSE IF mode = "allowlist"
        THEN user_id = admin_id \/ InList(user_id, allowlist)
        ELSE FALSE

\* "Check if service is enabled" of chat: one of the two early returns is taken.
service_disabled(access, source) ==
    \/ source = "bot" /\ ~ Get(access, "bot_enabled", TRUE)
    \/ source = "userbot" /\ ~ Get(access, "userbot_enabled", TRUE)

\* The reply of chat when it does not call run_agent; "run" when it does.
ChatVerdict(access, source, user_id) ==
    IF service_disabled(access, source) THEN "disabled"
    ELSE IF ~ has_access(access, user_id) THEN "access_denied"
    ELSE "run"

\* POST /api/chat: chat(req) from its entry to its early return or to the
\* first call_llm of the run_agent it awaits.  access is what
\* load_admin_config returns for this request; sec keeps the request and its
\* verdict.
chat(t, access, user_id, chat_id, message, chat_type, req_source) ==
    LET source  == IF req_source = "" THEN "bot" ELSE req_source
        verdict == ChatVerdict(access, source, user_id)
    IN  /\ run[t].pc = "idle"
        /\ sec' = [op |-> "chat", access |-> access, user_id |-> user_id,
                   chat_id |-> chat_id, source |-> source, verdict |-> verdict]
        /\ IF verdict = "run"
           THEN Entered(t, user_id, chat_id, message, chat_type, source, MaxRuns)
           ELSE UNCHANGED <<sessions, run, started>>
        /\ UNCHANGED <<userbot, mcp, BLOCKED_PATTERNS, SANDBOX_ENABLED>>

\* The replies of the model explored behind the chat endpoint.
ChatLLMResults == { AssistantTurn(<<"4">>, <<>>, "stop") }

NextChat ==
    \/ \E access \in AccessConfigs, user_id \in ChatUsers, message \in UserMessages,
          req_source \in ChatSources :
          chat("t1", access, user_id, 1, message, "private", req_source)
    \/ \E result \in ChatLLMResults : LLMReturn("t1", result)
    \/ RunReturns("t1")
    \/ \E user_id \in ChatUsers : Clear(user_id, 1)

SpecChat == InitAgent /\ [][NextChat]_vars

\* The access table: public admits anyone, admin_only the admin, allowlist
\* the admin and the listed users, any other mode nobody.  A missing mode is
\* admin_only, a missing admin_id the built-in one.
ModeAdmits(access, user_id) ==
    LET mode  == IF "mode" \in DOMAIN access THEN access.mode ELSE "admin_only"
        admin == IF "admin_id" \in DOMAIN access THEN access.admin_id
                 ELSE DEFAULT_ADMIN_ID
        list  == IF "allowlist" \in DOMAIN access THEN access.allowlist ELSE <<>>
    IN  \/ mode = "public"
        \/ mode = "admin_only" /\ user_id = admin
        \/ mode = "allowlist"
           /\ (user_id = admin \/ \E i \in 1..Len(list) : list[i] = user_id)

\* The source of the request is not switched off.
SourceEnabled(access, source) ==
    /\ source = "bot" => ("bot_enabled" \notin DOMAIN access \/ access.bot_enabled)
    /\ source = "userbot"
       => ("userbot_enabled" \notin DOMAIN access \/ access.userbot_enabled)

\* C32: a run is entered only in a step of the chat endpoint whose request has
\* an enabled source and a user admitted by the configured mode, and for the
\* session of that request; a step that handles a rejected request changes no
\* session and starts no run.
C32_RunOnlyWhenAdmitted ==
    [][ /\ \A t \in Tasks :
             RunStartStep(t)
             => /\ sec'.op = "chat"
                /\ sec'.verdict = "run"
                /\ SourceEnabled(sec'.access, sec'.source)
                /\ ModeAdmits(sec'.access, sec'.user_id)
                /\ run'[t].key = get_key(sec'.user_id, sec'.chat_id)
                /\ run'[t].tool_ctx.source = sec'.source
        /\ (sec' # sec /\ sec'.verdict # "run")
           => /\ ~ (SourceEnabled(sec'.access, sec'.source)
                    /\ ModeAdmits(sec'.access, sec'.user_id))
              /\ sessions' = sessions
              /\ run' = run
              /\ started' = started ]_vars

\* C32 witness: user 3 was turned away after another user's admitted run had
\* been saved, and no session of user 3 exists.
C32_Witness ==
    /\ sec.op = "chat"
    /\ sec.verdict = "access_denied"
    /\ sec.user_id = 3
    /\ get_key(3, 1) \notin DOMAIN sessions
    /\ \E key \in DOMAIN sessions : sessions[key].history # <<>>

(***************************************************************************)
(* bot/handlers.py, bot/api.py: the /clear command of the bot.             *)
(***************************************************************************)
\* The JSON body clear_session posts to the core's /api/clear.
ClearBody(user_id) == [user_id |-> user_id]

\* ClearRequest: the body is accepted when it carries both required fields.
ValidClearRequest(body) == {"user_id", "chat_id"} \subseteq DOMAIN body

\* POST /api/clear as the core answers it: 422 from the request validation,
\* before the handler runs, or 200 after sessions.clear.
ClearEndpoint(map, body) ==
    IF ValidClearRequest(body)
    THEN [status |-> 200, map |-> SessionsAfterClear(map, body.user_id, body.chat_id)]
    ELSE [status |-> 422, map |-> map]

\* clear_session: True unless the post raised; the status is not looked at.
clear_session(delivered) == delivered

\* The access section in force while the bot is used: open to everyone.
BotAccess == [mode |-> "public"]

\* A message of user_id in chat_id reaches the core through call_core.
BotMessage(t, user_id, chat_id, message) ==
    chat(t, BotAccess, user_id, chat_id, message, "private", "bot")

\* cmd_clear for a /clear of user_id in chat_id.  delivered is false when the
\* post raises (the core is unreachable).
cmd_clear(user_id, chat_id, delivered) ==
    LET answer == ClearEndpoint(sessions, ClearBody(user_id))
    IN  /\ sessions' = IF delivered THEN answer.map ELSE sessions
        /\ sec' = [op |-> "cmd_clear", user_id |-> user_id, chat_id |-> chat_id,
                   status |-> IF delivered THEN answer.status ELSE 0,
                   reply |-> IF clear_session(delivered) THEN "cmd_clear_ok"
                             ELSE "cmd_clear_fail"]
        /\ UNCHANGED <<userbot, mcp, BLOCKED_PATTERNS, SANDBOX_ENABLED, run, started>>

NextBot ==
    \/ \E user_id \in ChatUsers, message \in UserMessages :
          BotMessage("t1", user_id, 1, message)
    \/ \E result \in ChatLLMResults : LLMReturn("t1", result)
    \/ RunReturns("t1")
    \/ \E user_id \in ChatUsers, delivered \in BOOLEAN : cmd_clear(user_id, 1, delivered)

SpecBot == InitAgent /\ [][NextBot]_vars

\* C33: a /clear that the bot acknowledges as successful, sent by a user
\* whose messages in that chat have left a history in the core, was accepted
\* by the core's clear endpoint and left that session with an empty history
\* and no blocked commands.
C33_AckedClearResets ==
    [][ LET key == get_key(sec'.user_id, sec'.chat_id)
        IN  (/\ sec' # sec
             /\ sec'.op = "cmd_clear"
             /\ sec'.reply = "cmd_clear_ok"
             /\ key \in DOMAIN sessions
             /\ sessions[key].history # <<>>)
            => /\ sec'.status = 200
               /\ sessions'[key].history = <<>>
               /\ sessions'[key].blocked_count = 0 ]_vars

(***************************************************************************)
(* userbot/main.py: the cooldown between responses.                        *)
(***************************************************************************)
\* COOLDOWN_SECONDS (60 by default), scaled.
COOLDOWN_SECONDS == 2

\* The clock stops here.
MaxClock == 4

\* At most this many responses are sent.
MaxSent == 3

UserbotChats == {1, 2}

\* What call_agent and process_command leave of the agent's answer: nothing,
\* a text to send, or the result line of a command, which is not sent.
AgentResponses == {"", "text", "command-result"}

\* should_respond for a message of chat_id at the time now, all checks before
\* the cooldown passed; roll is the outcome of `roll < chance`.
should_respond(chat_id, now, last, roll) ==
    IF chat_id \in DOMAIN last /\ now - last[chat_id] < COOLDOWN_SECONDS
    THEN FALSE
    ELSE roll

\* A second passes.
Tick ==
    /\ userbot.now < MaxClock
    /\ userbot' = [userbot EXCEPT !.now = @ + 1]
    /\ UNCHANGED <<mcp, BLOCKED_PATTERNS, SANDBOX_ENABLED, sec, sessions, run, started>>

\* handler(event) for a new message of chat_id, from its entry to its return
\* or to the awaits of the typing action, the sleep and call_agent.
handler(h, chat_id, roll) ==
    /\ userbot.handlers[h].pc = "idle"
    /\ userbot' =
          IF should_respond(chat_id, userbot.now, userbot.last_response_time, roll)
          THEN [userbot EXCEPT !.handlers[h] = [pc |-> "call_agent", chat_id |-> chat_id]]
          ELSE userbot
    /\ UNCHANGED <<mcp, BLOCKED_PATTERNS, SANDBOX_ENABLED, sec, sessions, run, started>>

\* call_agent returns to the handler h: with a response the cooldown of the
\* chat is set to the time of the return, and a response that is a text is
\* sent.
AgentAnswers(h, response) ==
    LET chat_id == userbot.handlers[h].chat_id
        now     == userbot.now
    IN  /\ userbot.handlers[h].pc = "call_agent"
        /\ Len(userbot.sent) < MaxSent
        /\ userbot' =
              IF response = ""
              THEN [userbot EXCEPT !.handlers[h] = [pc |-> "idle"]]
              ELSE [userbot EXCEPT
                      !.handlers[h] = [pc |-> "idle"],
                      !.last_response_time =
                          [c \in DOMAIN @ \cup {chat_id} |->
                              IF c = chat_id THEN now ELSE @[c]],
                      !.sent = IF response = "text"
                               THEN Append(@, [chat_id |-> chat_id, time |-> now])
                               ELSE @]
        /\ UNCHANGED <<mcp, BLOCKED_PATTERNS, SANDBOX_ENABLED, sec, sessions, run, started>>

NextUserbot ==
    \/ Tick
    \/ \E h \in Handlers, chat_id \in UserbotChats, roll \in BOOLEAN :
          handler(h, chat_id, roll)
    \/ \E h \in Handlers, response \in AgentResponses : AgentAnswers(h, response)

SpecUserbot == InitAgent /\ [][NextUserbot]_vars

\* C34: any two agent responses the userbot sent in one chat are at least
\* COOLDOWN_SECONDS apart.
C34_CooldownBetweenResponses ==
    \A i, j \in DOMAIN userbot.sent :
        (i < j /\ userbot.sent[i].chat_id = userbot.sent[j].chat_id)
        => userbot.sent[j].time - userbot.sent[i].time >= COOLDOWN_SECONDS

(***************************************************************************)
(* tools-api/src/mcp.py: fetch_mcp_tools over the http transport.          *)
(***************************************************************************)
\* The tool lists a server may announce.
ToolLists == { <<>>, <<"tool_a">> }

\* A payload that json.loads rejects.
NotJson == [invalid |-> TRUE]

\* The JSON objects a response may hold.
JsonObjects ==
    { [result |-> [tools |-> tools]] : tools \in ToolLists }
    \cup { [tools |-> tools] : tools \in ToolLists }
    \cup { [result |-> [sessionId |-> "from-body"]], [sessionId |-> "from-body"],
           [error |-> "denied"] }

\* The lines of an event stream: a prefix before the payload, as the server
\* wrote it, and the payload.
SseLines ==
    { [prefix |-> prefix, payload |-> payload] :
        prefix \in {"data: ", "data:", " data: "},
        payload \in {NotJson, [result |-> [tools |-> <<"tool_a">>]], [error |-> "denied"]} }

\* The bodies of a response: nothing, text that is neither JSON nor an event
\* stream, one JSON object, or an event stream of one or two lines.
Bodies ==
    { [format |-> "empty"], [format |-> "text"] }
    \cup { [format |-> "json", data |-> data] : data \in JsonObjects }
    \cup { [format |-> "sse", lines |-> <<line>>] : line \in SseLines }
    \cup { [format |-> "sse", lines |-> <<[prefix |-> "data: ", payload |-> NotJson], line>>] :
             line \in SseLines }

\* The answers to the initialize request.
InitResponses ==
    { [status_code |-> status, session |-> session, body |-> body] :
        status \in {200, 403}, session \in {None, "sess-123"},
        body \in { [format |-> "empty"], [format |-> "text"],
                   [format |-> "json", data |-> [result |-> [sessionId |-> "from-body"]]],
                   [format |-> "json", data |-> [sessionId |-> "from-body"]],
                   [format |-> "json", data |-> [error |-> "denied"]] } }

\* The answers to the tools/list request.
ListResponses ==
    { [status_code |-> status, session |-> None, body |-> body] :
        status \in {200, 500}, body \in Bodies }

\* `"result" in data and "tools" in data["result"]`
HasResultTools(data) ==
    "result" \in DOMAIN data /\ "tools" \in DOMAIN data.result

\* The session id fetch_mcp_tools takes from the answer to initialize: the
\* mcp-session-id header, else for a 200 the sessionId of the body.
SessionId(init_response) ==
    IF init_response.session # None THEN init_response.session
    ELSE IF init_response.status_code = 200 /\ init_response.body.format = "json"
    THEN LET init_body == init_response.body.data
         IN  IF "result" \in DOMAIN init_body /\ "sessionId" \in DOMAIN init_body.result
             THEN init_body.result.sessionId
             ELSE Get(init_body, "sessionId", None)
    ELSE None

\* The first line of an event stream, from line i on, that the session path
\* reads as a tool list: every prefix is accepted after strip().
RECURSIVE SessionSse(_, _)
SessionSse(lines, i) ==
    IF i > Len(lines) THEN [found |-> FALSE, tools |-> <<>>]
    ELSE IF HasResultTools(lines[i].payload)
    THEN [found |-> TRUE, tools |-> lines[i].payload.result.tools]
    ELSE SessionSse(lines, i + 1)

\* The same of the legacy path: only a line that starts with "data: " is read.
RECURSIVE LegacySse(_, _)
LegacySse(lines, i) ==
    IF i > Len(lines) THEN [found |-> FALSE, tools |-> <<>>]
    ELSE IF lines[i].prefix = "data: " /\ HasResultTools(lines[i].payload)
    THEN [found |-> TRUE, tools |-> lines[i].payload.result.tools]
    ELSE LegacySse(lines, i + 1)

\* json.loads of a whole body that is one object: result.tools, else tools.
WholeJson(data) ==
    IF HasResultTools(data) THEN [found |-> TRUE, tools |-> data.result.tools]
    ELSE IF "tools" \in DOMAIN data THEN [found |-> TRUE, tools |-> data.tools]
    ELSE [found |-> FALSE, tools |-> <<>>]

\* What fetch_mcp_tools returns after the answer to tools/list; session tells
\* which of the two paths sent the request.
ToolsOfResponse(response, session) ==
    LET body == response.body
        read == IF response.status_code # 200 THEN [found |-> FALSE, tools |-> <<>>]
                ELSE IF body.format = "json" THEN WholeJson(body.data)
                ELSE IF body.format = "sse"
                THEN IF session THEN SessionSse(body.lines, 1)
                     ELSE LegacySse(body.lines, 1)
                ELSE [found |-> FALSE, tools |-> <<>>]
    IN  IF read.found THEN read.tools ELSE <<>>

\* Variant: a failed initialize ends the fetch.
AfterInitialize_stopsOnError(init_response) ==
    IF init_response.status_code # 200 THEN "return"
    ELSE IF SessionId(init_response) # None THEN "tools/list:session"
    ELSE "tools/list:legacy"

\* Where fetch_mcp_tools goes after the answer to initialize.
AfterInitialize(init_response) ==
    IF SessionId(init_response) # None THEN "tools/list:session"
    ELSE "tools/list:legacy"

\* fetch_mcp_tools(server) for an http server, up to the await of the
\* initialize request.
FetchStart(api_key) ==
    /\ sec.op = "none" \/ (sec.op = "fetch_mcp_tools" /\ sec.pc = "return")
    /\ sec' = [op |-> "fetch_mcp_tools", pc |-> "initialize",
               authorization |-> IF api_key # None /\ api_key # "" THEN api_key ELSE None,
               posts |-> <<"initialize">>, responses |-> <<>>,
               raised |-> FALSE, out |-> <<>>]
    /\ UNCHANGED <<userbot, mcp, BLOCKED_PATTERNS, SANDBOX_ENABLED, sessions, run, started>>

\* The initialize request is answered.
InitializeAnswered(init_response) ==
    /\ sec.op = "fetch_mcp_tools"
    /\ sec.pc = "initialize"
    /\ LET next == AfterInitialize(init_response)
       IN  sec' = [sec EXCEPT
                     !.pc = next,
                     !.responses = Append(@, init_response),
                     !.posts = IF next = "return" THEN @ ELSE Append(@, "tools/list")]
    /\ UNCHANGED <<userbot, mcp, BLOCKED_PATTERNS, SANDBOX_ENABLED, sessions, run, started>>

\* The tools/list request is answered.
ToolsListAnswered(response) ==
    /\ sec.op = "fetch_mcp_tools"
    /\ sec.pc \in {"tools/list:session", "tools/list:legacy"}
    /\ sec' = [sec EXCEPT
                 !.pc = "return",
                 !.responses = Append(@, response),
                 !.out = ToolsOfResponse(response, sec.pc = "tools/list:session")]
    /\ UNCHANGED <<userbot, mcp, BLOCKED_PATTERNS, SANDBOX_ENABLED, sessions, run, started>>

\* A request raises (connection refused, timeout): `except Exception`.
RequestRaises ==
    /\ sec.op = "fetch_mcp_tools"
    /\ sec.pc # "return"
    /\ sec' = [sec EXCEPT !.pc = "return", !.raised = TRUE, !.out = <<>>]
    /\ UNCHANGED <<userbot, mcp, BLOCKED_PATTERNS, SANDBOX_ENABLED, sessions, run, started>>

NextFetch ==
    \/ \E api_key \in McpKeys : FetchStart(api_key)
    \/ \E init_response \in InitResponses : InitializeAnswered(init_response)
    \/ \E response \in ListResponses : ToolsListAnswered(response)
    \/ RequestRaises

SpecFetch == InitAgent /\ [][NextFetch]_vars

\* A response holds a tool list somewhere: in its JSON object or in a line of
\* its event stream.
CarriesToolList(response) ==
    LET body == response.body
        Holds(object) == \/ "tools" \in DOMAIN object
                         \/ "result" \in DOMAIN object /\ "tools" \in DOMAIN object.result
    IN  \/ body.format = "json" /\ Holds(body.data)
        \/ body.format = "sse" /\ \E i \in DOMAIN body.lines : Holds(body.lines[i].payload)

\* C31: the requests of a fetch are always a prefix of initialize, tools/list;
\* a fetch that returned without a transport exception has sent exactly these
\* two, whatever the answer to initialize was, and has returned the empty list
\* if none of the two answers carried a tool list.
C31_TwoPostsInOrder ==
    sec.op = "fetch_mcp_tools"
    => /\ sec.posts \in { <<"initialize">>, <<"initialize", "tools/list">> }
       /\ (sec.pc = "return" /\ ~ sec.raised)
          => /\ sec.posts = <<"initialize", "tools/list">>
             /\ Len(sec.responses) = 2
             /\ (\A i \in 1..2 : ~ CarriesToolList(sec.responses[i]))
                => sec.out = <<>>

\* C31 witness: initialize was answered 403 without a session id, tools/list
\* was sent all the same, its answer held no tool list and the fetch returned
\* the empty list.
C31_Witness ==
    /\ sec.op = "fetch_mcp_tools"
    /\ sec.pc = "return"
    /\ ~ sec.raised
    /\ sec.posts = <<"initialize", "tools/list">>
    /\ sec.responses[1].status_code = 403
    /\ SessionId(sec.responses[1]) = None
    /\ ~ CarriesToolList(sec.responses[2])
    /\ sec.out = <<>>

(***************************************************************************)
(* tools-api/src/routes/mcp.py: the tool cache under add, remove, toggle   *)
(* and refresh, each route a coroutine that is suspended while it awaits   *)
(* fetch_mcp_tools.                                                        *)
(***************************************************************************)
\* The requests that may be in progress at once.
Requests == {"r1", "r2"}

\* servers[name].enabled = enabled
SetEnabled(servers, name, enabled) ==
    [i \in 1..Len(servers) |->
        IF servers[i].name = name THEN [servers[i] EXCEPT !.enabled = enabled]
        ELSE servers[i]]

\* The names of the enabled servers of a config, in its order.
RECURSIVE EnabledNames(_)
EnabledNames(servers) ==
    IF servers = <<>> THEN <<>>
    ELSE (IF Head(servers).enabled THEN <<Head(servers).name>> ELSE <<>>)
         \o EnabledNames(Tail(servers))

\* mcp_cache.add_tools(name, tools) for the fetched tools, when there are any.
CacheAfterAdd(tools, name, fetched) ==
    IF fetched > 0 THEN SetKey(tools, name, fetched) ELSE tools

\* POST /mcp/servers up to the await of fetch_mcp_tools.
AddBegins(r, name) ==
    /\ r \notin DOMAIN mcp.fetching
    /\ name \notin ServerNames(mcp.servers)
    /\ mcp' = [mcp EXCEPT
                 !.servers = Append(@, MCPServer(name, "http://mcp:3001", None)),
                 !.fetching = SetKey(@, r, [route |-> "add", name |-> name])]
    /\ UNCHANGED <<userbot, BLOCKED_PATTERNS, SANDBOX_ENABLED, sec, sessions, run, started>>

\* DELETE /mcp/servers/{name}, handled as the request r.
RemoveServer(r, name) ==
    /\ r \notin DOMAIN mcp.fetching
    /\ remove_mcp_server(name)

\* PUT /mcp/servers/{name}/toggle with enabled = false.
ToggleOff(r, name) ==
    /\ r \notin DOMAIN mcp.fetching
    /\ name \in ServerNames(mcp.servers)
    /\ mcp' = [mcp EXCEPT
                 !.servers = SetEnabled(@, name, FALSE),
                 !.tools   = DelKey(@, name),
                 !.status  = SetKey(@, name, [connected |-> FALSE, disabled |-> TRUE])]
    /\ UNCHANGED <<userbot, BLOCKED_PATTERNS, SANDBOX_ENABLED, sec, sessions, run, started>>

\* PUT /mcp/servers/{name}/toggle with enabled = true, up to the await.
ToggleOnBegins(r, name) ==
    /\ r \notin DOMAIN mcp.fetching
    /\ name \in ServerNames(mcp.servers)
    /\ mcp' = [mcp EXCEPT
                 !.servers = SetEnabled(@, name, TRUE),
                 !.fetching = SetKey(@, r, [route |-> "toggle", name |-> name])]
    /\ UNCHANGED <<userbot, BLOCKED_PATTERNS, SANDBOX_ENABLED, sec, sessions, run, started>>

\* POST /mcp/servers/{name}/refresh up to the await.
RefreshBegins(r, name) ==
    /\ r \notin DOMAIN mcp.fetching
    /\ name \in ServerNames(mcp.servers)
    /\ mcp' = [mcp EXCEPT
                 !.tools = DelKey(@, name),
                 !.fetching = SetKey(@, r, [route |-> "refresh", name |-> name])]
    /\ UNCHANGED <<userbot, BLOCKED_PATTERNS, SANDBOX_ENABLED, sec, sessions, run, started>>

\* POST /mcp/refresh-all up to the first await: the config is loaded once, and
\* the enabled servers of that copy are refreshed one after the other.
RefreshAllBegins(r) ==
    LET pending == EnabledNames(mcp.servers)
    IN  /\ r \notin DOMAIN mcp.fetching
        /\ pending # <<>>
        /\ mcp' = [mcp EXCEPT
                     !.tools = DelKey(@, Head(pending)),
                     !.fetching = SetKey(@, r, [route |-> "refresh-all",
                                                name |-> Head(pending),
                                                pending |-> Tail(pending)])]
        /\ UNCHANGED <<userbot, BLOCKED_PATTERNS, SANDBOX_ENABLED, sec, sessions, run, started>>

\* server_status[name] after a fetch, by route; the same as before when the
\* route leaves it alone.
StatusAfterFetch(status, route, name, fetched) ==
    IF fetched > 0
    THEN SetKey(status, name,
                IF route = "refresh"
                THEN [connected |-> TRUE, tool_count |-> fetched, last_refresh |-> "now"]
                ELSE [connected |-> TRUE, tool_count |-> fetched])
    ELSE IF route = "refresh"
    THEN SetKey(status, name, [connected |-> FALSE, error |-> "Failed to fetch tools"])
    ELSE IF route = "refresh-all"
    THEN SetKey(status, name, [connected |-> FALSE])
    ELSE status

\* fetch_mcp_tools returns fetched tools to the request r, which runs to its
\* end or, in refresh-all, to the fetch for the next server.
FetchReturns(r, fetched) ==
    /\ r \in DOMAIN mcp.fetching
    /\ LET request == mcp.fetching[r]
           cached  == CacheAfterAdd(mcp.tools, request.name, fetched)
           more    == request.route = "refresh-all" /\ request.pending # <<>>
       IN  mcp' = [mcp EXCEPT
                     !.tools = IF more THEN DelKey(cached, Head(request.pending))
                               ELSE cached,
                     !.status = StatusAfterFetch(@, request.route, request.name, fetched),
                     !.fetching =
                        IF more
                        THEN SetKey(@, r, [route |-> "refresh-all",
                                           name |-> Head(request.pending),
                                           pending |-> Tail(request.pending)])
                        ELSE DelKey(@, r)]
    /\ UNCHANGED <<userbot, BLOCKED_PATTERNS, SANDBOX_ENABLED, sec, sessions, run, started>>

\* The routes with the given requests in progress at once.
NextMcpCache(requests) ==
    \/ \E r \in requests, name \in McpNames : AddBegins(r, name)
    \/ \E r \in requests, name \in McpNames : RemoveServer(r, name)
    \/ \E r \in requests, name \in McpNames : ToggleOff(r, name)
    \/ \E r \in requests, name \in McpNames : ToggleOnBegins(r, name)
    \/ \E r \in requests, name \in McpNames : RefreshBegins(r, name)
    \/ \E r \in requests : RefreshAllBegins(r)
    \/ \E r \in requests, fetched \in {0, 1} : FetchReturns(r, fetched)

\* One request at a time.
SpecMcpSerial == InitAgent /\ [][NextMcpCache({"r1"})]_vars

\* Requests overlap.
SpecMcpOverlap == InitAgent /\ [][NextMcpCache(Requests)]_vars

\* C35: the cache holds no tool of a configured server that is disabled.
C35_DisabledHasNoTools ==
    \A i \in 1..Len(mcp.servers) :
        ~ mcp.servers[i].enabled => Get(mcp.tools, mcp.servers[i].name, 0) = 0

\* C36: when no request is in progress, every server with cached tools is
\* configured.
C36_ToolsOfConfiguredOnly ==
    mcp.fetching = <<>>
    => \A name \in DOMAIN mcp.tools :
          mcp.tools[name] > 0 => name \in ServerNames(mcp.servers)

====
